---- MODULE Spec2Model ----
(***************************************************************************)
(* A model of the PyVM IA-32 emulator core: the instruction handlers of    *)
(* VM/instructions/bitwise.py and VM/instructions/memory.py and the        *)
(* syscall handlers of VM/kernel.py.                                       *)
(*                                                                         *)
(* Values are kept the way the emulator keeps them when it moves them      *)
(* around: as little-endian byte strings (util.byteorder).  A value of     *)
(* size n is a sequence of n bytes, least significant first, so that the   *)
(* full 32-bit range is represented exactly.  Python integers obtained     *)
(* with to_int(...) are modelled by the same byte strings, and integer     *)
(* arithmetic on them by byte-wise arithmetic.                             *)
(***************************************************************************)
EXTENDS Integers, Sequences, FiniteSets, TLC

VARIABLES
    reg,               \* vm.reg: the eight general registers, 4 bytes each
    eflags,            \* vm.reg.eflags: 4 bytes
    eip,               \* vm.eip
    mem,               \* vm.mem: the linear byte store
    segment_override,  \* vm.mem.segment_override
    operand_size,      \* vm.operand_size (2 or 4), set by the decoder
    address_size,      \* vm.address_size (2 or 4), set by the decoder
    opcode,            \* vm.opcode, set by the decoder
    running,           \* vm.running: the fetch-execute loop goes on while it is true
    RETCODE,           \* vm.RETCODE: a signed integer
    program_break,     \* vm.mem.program_break: 4 bytes
    code_segment_end,  \* vm.code_segment_end: 4 bytes
    GDT,               \* vm.GDT: the descriptors, 8 bytes each, indexed from 0
    sreg,              \* vm.sreg: selector and cached descriptor of each segment register
    descriptors,       \* vm.descriptors: the host endpoints, indexed by file descriptor
    cand,              \* position in the candidate list of the opcode slot
    ret,               \* result of the last handler call
    log,               \* the handler calls made so far, each with the state before it
    inp                \* the inputs drawn for this run

sysVars == <<running, RETCODE, program_break, code_segment_end, GDT, sreg, descriptors>>
cpuVars == <<reg, eflags, eip, mem, segment_override, operand_size, address_size, opcode,
             sysVars>>
vars == <<reg, eflags, eip, mem, segment_override, operand_size, address_size, opcode,
          running, RETCODE, program_break, code_segment_end, GDT, sreg, descriptors,
          cand, ret, log, inp>>

(***************************************************************************)
(* Bounds of the model.                                                    *)
(***************************************************************************)
\* Size of the linear memory; an access outside 0..MemSize-1 is a memory fault.
MemSize == 48
\* Address of the bytes that follow the opcode of the instruction under execution.
CodeBase == 36
\* Number of instructions executed in a run of the multi-instruction specifications.
MaxInstr == 2

(***************************************************************************)
(* Byte strings and arithmetic on them.                                    *)
(***************************************************************************)
Byte == 0..255

Bit(x, i) == (x \div (2^i)) % 2

\* util.to_int / int.to_bytes for the small non-negative integers of the model
FromInt(k, n) == [i \in 1..n |-> IF i > 4 THEN 0 ELSE (k \div (256^(i-1))) % 256]

ToInt(bs) == IF Len(bs) = 0 THEN 0
             ELSE bs[1] + (IF Len(bs) >= 2 THEN 256 * bs[2] ELSE 0)
                        + (IF Len(bs) >= 3 THEN 65536 * bs[3] ELSE 0)

Zeros(n) == [i \in 1..n |-> 0]

IsZero(bs) == \A i \in 1..Len(bs) : bs[i] = 0

\* MAXVALS[n]: the maximum value of an unsigned n-byte number
MAXVALS(n) == [i \in 1..n |-> 255]

\* value & MAXVALS[n] followed by to_bytes(n): the low n bytes, zero-filled
Trunc(bs, n) == [i \in 1..n |-> IF i <= Len(bs) THEN bs[i] ELSE 0]

\* misc.MSB(value, size): bit size*8-1
MSB(bs, sz) == bs[sz] \div 128

\* misc.LSB(value, 1): bit 0
LSB(bs) == bs[1] % 2

\* misc.parity: 1 iff the byte has an even number of set bits
parity(b) == 1 - ((Bit(b,0) + Bit(b,1) + Bit(b,2) + Bit(b,3)
                   + Bit(b,4) + Bit(b,5) + Bit(b,6) + Bit(b,7)) % 2)

\* misc.sign_extend(bytes, n)
sign_extend(bs, n) ==
    [i \in 1..n |-> IF i <= Len(bs) THEN bs[i]
                    ELSE IF bs[Len(bs)] >= 128 THEN 255 ELSE 0]

bitfn(operation, x, y) ==
    CASE operation = "and_" -> x * y
      [] operation = "or_"  -> IF x + y > 0 THEN 1 ELSE 0
      [] operation = "xor"  -> (x + y) % 2

RECURSIVE BitOp8(_, _, _, _)
BitOp8(operation, a, b, i) ==
    IF i = 8 THEN 0
    ELSE bitfn(operation, Bit(a, i), Bit(b, i)) * (2^i) + BitOp8(operation, a, b, i + 1)

\* operator.and_ / operator.or_ / operator.xor on two values of the same size
operator(operation, a, b) == [i \in 1..Len(a) |-> BitOp8(operation, a[i], b[i], 0)]

RECURSIVE AddC(_, _, _)
AddC(a, b, c) ==
    IF Len(a) = 0 THEN <<>>
    ELSE LET s == a[1] + b[1] + c
         IN  <<s % 256>> \o AddC(Tail(a), Tail(b), s \div 256)

\* (a + b) & MAXVALS[len(a)]
Add(a, b) == AddC(a, b, 0)

\* (a - b) & MAXVALS[len(a)]
Sub(a, b) == AddC(a, [i \in 1..Len(b) |-> 255 - b[i]], 1)

\* a + k and a - k modulo 2^(8*len(a)) for a small constant k
AddK(a, k) == Add(a, FromInt(k, Len(a)))
SubK(a, k) == Sub(a, FromInt(k, Len(a)))

RECURSIVE LessFrom(_, _, _)
LessFrom(a, b, i) ==
    IF i = 0 THEN FALSE
    ELSE IF a[i] # b[i] THEN a[i] < b[i]
    ELSE LessFrom(a, b, i - 1)

\* a < b as unsigned integers
Less(a, b) == LessFrom(a, b, Len(a))

\* (value << 1) & MAXVALS[n]
Shl1(bs) == Add(bs, bs)

\* value >> 1 with `fill` entering at the top bit
Shr1(bs, fill) ==
    [i \in 1..Len(bs) |->
        (bs[i] \div 2) + 128 * (IF i = Len(bs) THEN fill ELSE bs[i + 1] % 2)]

RECURSIVE ShlN(_, _)
ShlN(bs, n) == IF n = 0 THEN bs ELSE ShlN(Shl1(bs), n - 1)

(***************************************************************************)
(* EFLAGS (Registers.Reg32): bit numbers and the per-bit accessors.        *)
(***************************************************************************)
CF == 0
PF == 2
AF == 4
ZF == 6
SF == 7
DF == 10
OF == 11

eflags_get(e, bit) == Bit(e[(bit \div 8) + 1], bit % 8)

eflags_set(e, bit, v) ==
    LET k   == (bit \div 8) + 1
        old == Bit(e[k], bit % 8)
    IN  [e EXCEPT ![k] = e[k] - old * (2^(bit % 8)) + v * (2^(bit % 8))]

B2I(b) == IF b THEN 1 ELSE 0

(***************************************************************************)
(* The register file (Registers.Reg32.get / set) with sub-register views.  *)
(***************************************************************************)
RegOK(offset) == offset \in 0..7

reg_get(regs, offset, size) ==
    CASE size = 4 -> regs[offset]
      [] size = 2 -> SubSeq(regs[offset], 1, 2)
      [] size = 1 -> IF offset < 4 THEN <<regs[offset][1]>>
                     ELSE <<regs[offset - 4][2]>>

reg_set(regs, offset, data) ==
    CASE Len(data) = 4 -> [regs EXCEPT ![offset] = data]
      [] Len(data) = 2 -> [regs EXCEPT ![offset] = <<data[1], data[2], @[3], @[4]>>]
      [] Len(data) = 1 -> IF offset < 4
                          THEN [regs EXCEPT ![offset] = <<data[1], @[2], @[3], @[4]>>]
                          ELSE [regs EXCEPT ![offset - 4] = <<@[1], data[1], @[3], @[4]>>]

(***************************************************************************)
(* The linear memory (mem.get / mem.get_eip / mem.set).                    *)
(***************************************************************************)
\* The integer address of a 4-byte location, or -1 when it lies outside the store.
AddrOf(loc) ==
    IF loc[2] = 0 /\ loc[3] = 0 /\ loc[4] = 0 /\ loc[1] < MemSize THEN loc[1] ELSE -1

InRange(a, n) == a >= 0 /\ a + n <= MemSize

mem_get(m, a, n) == [i \in 1..n |-> m[a + i - 1]]

mem_set(m, a, data) ==
    [x \in DOMAIN m |-> IF x >= a /\ x < a + Len(data) THEN data[x - a + 1] ELSE m[x]]

(***************************************************************************)
(* Handler results.  A handler returns True or False, or ends in a fault   *)
(* (a Python exception) with the state as it was when the fault arose.     *)
(***************************************************************************)
Done(vm)    == [vm |-> vm, ret |-> "True"]
Decline(vm) == [vm |-> vm, ret |-> "False"]
Fault(vm)   == [vm |-> vm, ret |-> "fault"]

\* Rewind that returns False with EIP left where process_ModRM moved it
Rewind_keep(vm, old_eip) == Decline(vm)

\* vm.eip = old_eip; return False: the handler declines the encoding
Rewind(vm, old_eip) == Decline([vm EXCEPT !.eip = old_eip])

\* (vm.mem if type else vm.reg).get(loc, sz) is possible without a fault
CanGet(vm, type, loc, sz) ==
    IF type = 1 THEN InRange(AddrOf(loc), sz) ELSE RegOK(AddrOf(loc))

\* (vm.mem if type else vm.reg).get(loc, sz)
Get(vm, type, loc, sz) ==
    IF type = 1 THEN mem_get(vm.mem, AddrOf(loc), sz)
    ELSE reg_get(vm.reg, AddrOf(loc), sz)

\* (vm.mem if type else vm.reg).set(loc, data)
Set(vm, type, loc, data) ==
    IF type = 1 THEN [vm EXCEPT !.mem = mem_set(vm.mem, AddrOf(loc), data)]
    ELSE [vm EXCEPT !.reg = reg_set(vm.reg, AddrOf(loc), data)]

SetFlag(vm, bit, v) == [vm EXCEPT !.eflags = eflags_set(vm.eflags, bit, v)]

(***************************************************************************)
(* The ModR/M service of the decoder: process_ModRM(rm_size, reg_size).    *)
(* RM = <<type, loc, size>> with type 0 for a register (loc is its index)  *)
(* and 1 for memory (loc is the effective address); R = <<mod, reg, size>>.*)
(***************************************************************************)
ModRMLen(m, e) ==
    LET modrm == m[e]
        mod   == modrm \div 64
        rm    == modrm % 8
        sib   == IF mod # 3 /\ rm = 4 THEN 1 ELSE 0
        base5 == sib = 1 /\ InRange(e + 1, 1) /\ m[e + 1] % 8 = 5
        disp  == CASE mod = 3 -> 0
                   [] mod = 1 -> 1
                   [] mod = 2 -> 4
                   [] mod = 0 -> IF rm = 5 \/ base5 THEN 4 ELSE 0
    IN  1 + sib + disp

process_ModRM(vm, rm_size, reg_size) ==
    LET none == [ok |-> FALSE, vm |-> vm, RM |-> <<0, Zeros(4), rm_size>>,
                 R |-> <<0, 0, reg_size>>]
    IN
    IF ~InRange(vm.eip, 1) THEN none
    ELSE
    LET modrm == vm.mem[vm.eip]
        mod   == modrm \div 64
        regf  == (modrm \div 8) % 8
        rm    == modrm % 8
        len   == ModRMLen(vm.mem, vm.eip)
    IN
    IF mod = 3
    THEN [ok |-> TRUE, vm |-> [vm EXCEPT !.eip = vm.eip + 1],
          RM |-> <<0, FromInt(rm, 4), rm_size>>, R |-> <<mod, regf, reg_size>>]
    ELSE IF ~InRange(vm.eip, len) THEN none
    ELSE
    LET hasSIB == rm = 4
        sib    == IF hasSIB THEN vm.mem[vm.eip + 1] ELSE 0
        scale  == sib \div 64
        index  == (sib \div 8) % 8
        base   == sib % 8
        dpos   == vm.eip + 1 + (IF hasSIB THEN 1 ELSE 0)
        nobase == mod = 0 /\ ((~hasSIB /\ rm = 5) \/ (hasSIB /\ base = 5))
        basev  == IF nobase THEN Zeros(4)
                  ELSE IF hasSIB THEN vm.reg[base] ELSE vm.reg[rm]
        indexv == IF hasSIB /\ index # 4 THEN ShlN(vm.reg[index], scale) ELSE Zeros(4)
        disp   == CASE mod = 1 -> sign_extend(mem_get(vm.mem, dpos, 1), 4)
                    [] mod = 2 -> mem_get(vm.mem, dpos, 4)
                    [] mod = 0 -> IF nobase THEN mem_get(vm.mem, dpos, 4) ELSE Zeros(4)
        addr   == Add(Add(basev, indexv), disp)
    IN  [ok |-> TRUE, vm |-> [vm EXCEPT !.eip = vm.eip + len],
         RM |-> <<1, addr, rm_size>>, R |-> <<mod, regf, reg_size>>]

(***************************************************************************)
(* The stack service of the CPU: stack_push(value) / stack_pop(size).      *)
(* PUSH decrements ESP by the operand size and then writes; POP reads and  *)
(* then increments.                                                        *)
(***************************************************************************)
stack_push(vm, data) ==
    LET size == vm.operand_size
        new  == SubK(vm.reg[4], size)
    IN  IF ~InRange(AddrOf(new), size) THEN [ok |-> FALSE, vm |-> vm]
        ELSE [ok |-> TRUE,
              vm |-> [vm EXCEPT !.mem = mem_set(vm.mem, AddrOf(new), Trunc(data, size)),
                                !.reg = reg_set(vm.reg, 4, new)]]

stack_pop(vm, size) ==
    LET old == vm.reg[4]
    IN  IF ~InRange(AddrOf(old), size) THEN [ok |-> FALSE, vm |-> vm, data |-> Zeros(size)]
        ELSE [ok |-> TRUE,
              vm |-> [vm EXCEPT !.reg = reg_set(vm.reg, 4, AddK(old, size))],
              data |-> mem_get(vm.mem, AddrOf(old), size)]

(***************************************************************************)
(* bitwise.py: AND / OR / XOR / TEST                                       *)
(***************************************************************************)
\* LogicFlags with SF taken from bit 7 whatever the operand size
LogicFlags_SF7(vm, c, sz) ==
    LET vm3 == SetFlag(vm, SF, MSB(c, 1))
        cT  == Trunc(c, sz)
        vm4 == SetFlag(vm3, ZF, B2I(IsZero(cT)))
    IN  SetFlag(vm4, PF, parity(cT[1]))

\* The flag updates shared by the four forms: SF from c, ZF and PF from c & MAXVALS[sz]
LogicFlags(vm, c, sz) ==
    LET vm3 == SetFlag(vm, SF, MSB(c, sz))
        cT  == Trunc(c, sz)
        vm4 == SetFlag(vm3, ZF, B2I(IsZero(cT)))
    IN  SetFlag(vm4, PF, parity(cT[1]))

BITWISE_r_imm(vm, b8, operation, test) ==
    LET sz == IF b8 THEN 1 ELSE vm.operand_size
    IN
    IF ~InRange(vm.eip, sz) THEN Fault(vm)
    ELSE
    LET b   == mem_get(vm.mem, vm.eip, sz)
        vm1 == [vm EXCEPT !.eip = vm.eip + sz]
        a   == reg_get(vm1.reg, 0, sz)
        vm2 == SetFlag(SetFlag(vm1, OF, 0), CF, 0)
        c   == operator(operation, a, b)
        vm5 == LogicFlags(vm2, c, sz)
    IN  Done(IF test THEN vm5 ELSE [vm5 EXCEPT !.reg = reg_set(vm5.reg, 0, Trunc(c, sz))])

\* The reg field a candidate of 0x80/0x81/0x83/0xF6/0xF7 owns
BITWISE_regfield(operation, test) ==
    CASE operation = "and_" /\ ~test -> 4
      [] operation = "and_" /\ test  -> 0
      [] operation = "or_"           -> 1
      [] operation = "xor"           -> 6

BITWISE_rm_imm(vm, b8, b8imm, operation, test) ==
    LET sz      == IF b8 THEN 1 ELSE vm.operand_size
        imm_sz  == IF b8imm THEN 1 ELSE vm.operand_size
        old_eip == vm.eip
        pm      == process_ModRM(vm, sz, sz)
    IN
    IF ~pm.ok THEN Fault(vm)
    ELSE IF pm.R[2] # BITWISE_regfield(operation, test)
    THEN Rewind(pm.vm, old_eip)
    ELSE IF ~InRange(pm.vm.eip, imm_sz) THEN Fault(pm.vm)
    ELSE
    LET b    == sign_extend(mem_get(pm.vm.mem, pm.vm.eip, imm_sz), sz)
        vm1  == [pm.vm EXCEPT !.eip = pm.vm.eip + imm_sz]
        type == pm.RM[1]
        loc  == pm.RM[2]
        vm2  == SetFlag(SetFlag(vm1, OF, 0), CF, 0)
    IN
    IF ~CanGet(vm2, type, loc, sz) THEN Fault(vm2)
    ELSE
    LET a   == Get(vm2, type, loc, sz)
        c   == operator(operation, a, Trunc(b, sz))
        vm5 == LogicFlags(vm2, c, sz)
    IN  Done(IF test THEN vm5 ELSE Set(vm5, type, loc, Trunc(c, sz)))

BITWISE_rm_r(vm, b8, operation, test) ==
    LET sz == IF b8 THEN 1 ELSE vm.operand_size
        pm == process_ModRM(vm, sz, sz)
    IN
    IF ~pm.ok THEN Fault(vm)
    ELSE
    LET type == pm.RM[1]
        loc  == pm.RM[2]
        vm2  == SetFlag(SetFlag(pm.vm, OF, 0), CF, 0)
    IN
    IF ~CanGet(vm2, type, loc, sz) THEN Fault(vm2)
    ELSE
    LET a   == Get(vm2, type, loc, sz)
        b   == reg_get(vm2.reg, pm.R[2], sz)
        c   == operator(operation, a, b)
        vm5 == LogicFlags(vm2, c, sz)
    IN  Done(IF test THEN vm5 ELSE Set(vm5, type, loc, Trunc(c, sz)))

BITWISE_r_rm(vm, b8, operation, test) ==
    LET sz == IF b8 THEN 1 ELSE vm.operand_size
        pm == process_ModRM(vm, sz, sz)
    IN
    IF ~pm.ok THEN Fault(vm)
    ELSE
    LET type == pm.RM[1]
        loc  == pm.RM[2]
        vm2  == SetFlag(SetFlag(pm.vm, OF, 0), CF, 0)
    IN
    IF ~CanGet(vm2, type, loc, sz) THEN Fault(vm2)
    ELSE
    LET a   == Get(vm2, type, loc, sz)
        b   == reg_get(vm2.reg, pm.R[2], sz)
        c   == operator(operation, a, b)
        vm5 == LogicFlags(vm2, c, sz)
    IN  Done(IF test THEN vm5
             ELSE [vm5 EXCEPT !.reg = reg_set(vm5.reg, pm.R[2], Trunc(c, sz))])

(***************************************************************************)
(* bitwise.py: NEG / NOT                                                   *)
(***************************************************************************)
\* NEGNOT.operation_not(a, off): MAXVALS[off] - a
operation_not(a, off) == [i \in 1..off |-> 255 - a[i]]

\* NEGNOT.operation_neg(a, off): operation_not(a, off) + 1, then & MAXVALS[off]
operation_neg(a, off) == AddK(operation_not(a, off), 1)

\* operation 0 is NEG ("neg"), operation 1 is NOT ("not")
NEGNOT_regfield(operation) == IF operation = "neg" THEN 3 ELSE 2

NEGNOT_rm(vm, b8, operation) ==
    LET sz      == IF b8 THEN 1 ELSE vm.operand_size
        old_eip == vm.eip
        pm      == process_ModRM(vm, sz, sz)
    IN
    IF ~pm.ok THEN Fault(vm)
    ELSE IF pm.R[2] # NEGNOT_regfield(operation)
    THEN Rewind(pm.vm, old_eip)
    ELSE
    LET type == pm.RM[1]
        loc  == pm.RM[2]
    IN
    IF ~CanGet(pm.vm, type, loc, sz) THEN Fault(pm.vm)
    ELSE
    LET a   == Get(pm.vm, type, loc, sz)
        neg == operation = "neg"
        vm1 == IF neg THEN SetFlag(pm.vm, CF, B2I(~IsZero(a))) ELSE pm.vm
        b   == IF neg THEN operation_neg(a, sz) ELSE operation_not(a, sz)
        vm2 == IF neg THEN SetFlag(SetFlag(vm1, SF, MSB(b, sz)), ZF, B2I(IsZero(b)))
               ELSE vm1
        vm3 == IF neg THEN SetFlag(vm2, PF, parity(b[1])) ELSE vm2
    IN  \* vm.reg.set(loc, b): the register file is written whatever the operand kind
        IF ~RegOK(AddrOf(loc)) THEN Fault(vm3)
        ELSE Done([vm3 EXCEPT !.reg = reg_set(vm3.reg, AddrOf(loc), b)])

(***************************************************************************)
(* bitwise.py: SHL / SHR / SAR                                             *)
(***************************************************************************)
\* countMASK that keeps the whole count byte
countMASK_byte == 255

countMASK == 31

\* SHIFT_regfield with the reg fields of SHR and SAR exchanged
SHIFT_regfield_swapped(operation) ==
    CASE operation = "SHL" -> 4
      [] operation = "SHR" -> 7
      [] operation = "SAR" -> 5

SHIFT_regfield(operation) ==
    CASE operation = "SHL" -> 4
      [] operation = "SHR" -> 5
      [] operation = "SAR" -> 7

\* a round that shifts SAR in zeros, as SHR does
ShiftRound_logical(operation, st, sz) ==
    IF operation = "SHL"
    THEN [dst |-> Shl1(st.dst), cf |-> MSB(st.dst, sz)]
    ELSE [dst |-> Shr1(st.dst, 0), cf |-> LSB(st.dst)]

\* One round of the while loop of SHIFT.shift: CF receives the bit about to be
\* shifted out, then dst moves by one bit.  dst is kept to sz bytes: the bits
\* above are never read (MSB(dst, sz) reads bit sz*8-1) and are dropped by
\* dst &= MAXVALS[sz].  For SAR dst was read signed, so dst >>= 1 keeps the sign.
ShiftRound(operation, st, sz) ==
    IF operation = "SHL"
    THEN [dst |-> Shl1(st.dst), cf |-> MSB(st.dst, sz)]
    ELSE [dst |-> Shr1(st.dst, IF operation = "SAR" THEN MSB(st.dst, sz) ELSE 0),
          cf  |-> LSB(st.dst)]

\* while tmp_cnt != 0: ...; tmp_cnt -= 1
RECURSIVE ShiftLoop(_, _, _, _)
ShiftLoop(operation, st, tmp_cnt, sz) ==
    IF tmp_cnt = 0 THEN st
    ELSE CHOOSE r \in { ShiftLoop(operation, x, tmp_cnt - 1, sz) :
                           x \in {ShiftRound(operation, st, sz)} } : TRUE

SHIFT_shift(vm, operation, cnt, b8) ==
    LET sz      == IF b8 THEN 1 ELSE vm.operand_size
        old_eip == vm.eip
        pm      == process_ModRM(vm, vm.operand_size, vm.operand_size)
    IN
    IF ~pm.ok THEN Fault(vm)
    ELSE IF pm.R[2] # SHIFT_regfield(operation)
    THEN Rewind(pm.vm, old_eip)
    ELSE IF cnt = "C_imm8" /\ ~InRange(pm.vm.eip, 1) THEN Fault(pm.vm)
    ELSE
    LET count   == CASE cnt = "C_ONE"  -> 1
                     [] cnt = "C_CL"   -> reg_get(pm.vm.reg, 1, 1)[1]
                     [] cnt = "C_imm8" -> pm.vm.mem[pm.vm.eip]
        vm1     == IF cnt = "C_imm8" THEN [pm.vm EXCEPT !.eip = pm.vm.eip + 1] ELSE pm.vm
        tmp_cnt == BitOp8("and_", count, countMASK, 0)
        type    == pm.RM[1]
        loc     == pm.RM[2]
    IN
    IF tmp_cnt = 0 THEN Done(vm1)
    ELSE IF ~CanGet(vm1, type, loc, sz) THEN Fault(vm1)
    ELSE
    LET tmp_dst == Get(vm1, type, loc, sz)
        lp      == ShiftLoop(operation, [dst |-> tmp_dst, cf |-> eflags_get(vm1.eflags, CF)],
                             tmp_cnt, sz)
        dst     == lp.dst
        vm2     == SetFlag(vm1, CF, lp.cf)
        vm3     == IF tmp_cnt = 1
                   THEN SetFlag(vm2, OF,
                           CASE operation = "SHL" -> (MSB(dst, sz) + lp.cf) % 2
                             [] operation = "SAR" -> 0
                             [] operation = "SHR" -> MSB(tmp_dst, sz))
                   ELSE vm2
        vm4     == SetFlag(vm3, SF, MSB(dst, sz))
        vm5     == SetFlag(vm4, ZF, B2I(IsZero(dst)))
        vm6     == SetFlag(vm5, PF, parity(dst[1]))
    IN  Done(Set(vm6, type, loc, dst))

(***************************************************************************)
(* bitwise.py: SHLD / SHRD                                                 *)
(***************************************************************************)
\* The value of sz bytes whose bit i is b(i)
FromBits(sz, b(_)) ==
    [j \in 1..sz |-> b(8 * j - 8) + 2 * b(8 * j - 7) + 4 * b(8 * j - 6) + 8 * b(8 * j - 5)
                     + 16 * b(8 * j - 4) + 32 * b(8 * j - 3) + 64 * b(8 * j - 2)
                     + 128 * b(8 * j - 1)]

\* x << k kept to the width of x
ShlBy(x, k) ==
    FromBits(Len(x), LAMBDA i : IF i >= k THEN Bit(x[((i - k) \div 8) + 1], (i - k) % 8) ELSE 0)

\* x >> k for an unsigned x
ShrBy(x, k) ==
    FromBits(Len(x), LAMBDA i : IF i + k < 8 * Len(x)
                                THEN Bit(x[((i + k) \div 8) + 1], (i + k) % 8) ELSE 0)

\* the count used as it was read
SHIFTD_count_raw(cnt) == cnt

\* cnt %= 32
SHIFTD_count(cnt) == cnt % 32

SHIFTD_shift(vm, operation, cnt) ==
    LET sz == vm.operand_size
        pm == process_ModRM(vm, sz, sz)
    IN
    IF ~pm.ok THEN Fault(vm)
    ELSE
    LET type == pm.RM[1]
        loc  == pm.RM[2]
    IN
    IF ~CanGet(pm.vm, type, loc, sz) THEN Fault(pm.vm)
    ELSE IF cnt = "C_imm8" /\ ~InRange(pm.vm.eip, 1) THEN Fault(pm.vm)
    ELSE
    LET dst_init == Get(pm.vm, type, loc, sz)
        src      == reg_get(pm.vm.reg, pm.R[2], sz)
        read     == IF cnt = "C_imm8" THEN pm.vm.mem[pm.vm.eip]
                    ELSE reg_get(pm.vm.reg, 1, 1)[1]
        vm1      == IF cnt = "C_imm8" THEN [pm.vm EXCEPT !.eip = pm.vm.eip + 1] ELSE pm.vm
        count    == SHIFTD_count(read)
    IN
    IF count = 0 THEN Done(vm1)
    ELSE IF count > sz * 8 THEN Done(vm1)
    ELSE
    LET n         == sz * 8
        _sign_dst == MSB(dst_init, sz)
        _src      == ShrBy(src, n - count)
        vm2       == IF operation = "SHL"
                     THEN SetFlag(vm1, CF, LSB(ShrBy(dst_init, n - count)))
                     ELSE SetFlag(vm1, CF, LSB(ShrBy(dst_init, count - 1)))
        dst       == IF operation = "SHL"
                     THEN operator("or_", ShlBy(dst_init, count), _src)
                     ELSE operator("or_", ShrBy(dst_init, count), ShlBy(_src, count))
        sign_dst  == MSB(dst, sz)
        vm3       == SetFlag(vm2, SF, sign_dst)
        vm4       == SetFlag(vm3, ZF, B2I(IsZero(dst)))
        vm5       == SetFlag(vm4, PF, parity(dst[1]))
        vm6       == IF count = 1 THEN SetFlag(vm5, OF, B2I(_sign_dst # sign_dst)) ELSE vm5
    IN  Done(Set(vm6, type, loc, dst))

(***************************************************************************)
(* memory.py: MOV r/m, imm; PUSH r / r/m; POP r / r/m                      *)
(***************************************************************************)
MOV_rm_imm(vm, b8) ==
    LET sz      == IF b8 THEN 1 ELSE vm.operand_size
        old_eip == vm.eip
        pm      == process_ModRM(vm, sz, sz)
    IN
    IF ~pm.ok THEN Fault(vm)
    ELSE IF pm.R[2] # 0 THEN Rewind(pm.vm, old_eip)
    ELSE IF ~InRange(pm.vm.eip, sz) THEN Fault(pm.vm)
    ELSE
    LET type == pm.RM[1]
        loc  == pm.RM[2]
        imm  == mem_get(pm.vm.mem, pm.vm.eip, sz)
        vm1  == [pm.vm EXCEPT !.eip = pm.vm.eip + sz]
    IN  IF ~CanGet(vm1, type, loc, sz) THEN Fault(vm1)
        ELSE Done(Set(vm1, type, loc, imm))

\* MOV.r_imm that loads EAX / AL whatever the opcode
MOV_r_imm_eax(vm, b8) ==
    LET sz == IF b8 THEN 1 ELSE vm.operand_size
    IN  IF ~InRange(vm.eip, sz) THEN Fault(vm)
        ELSE Done([vm EXCEPT !.eip = vm.eip + sz,
                             !.reg = reg_set(vm.reg, 0, mem_get(vm.mem, vm.eip, sz))])

MOV_r_imm(vm, b8) ==
    LET sz == IF b8 THEN 1 ELSE vm.operand_size
    IN  IF ~InRange(vm.eip, sz) THEN Fault(vm)
        ELSE LET imm == mem_get(vm.mem, vm.eip, sz)
                 r   == vm.opcode % 8
             IN  Done([vm EXCEPT !.eip = vm.eip + sz, !.reg = reg_set(vm.reg, r, imm)])

MOV_rm_r(vm, b8, reverse) ==
    LET sz == IF b8 THEN 1 ELSE vm.operand_size
        pm == process_ModRM(vm, sz, sz)
    IN
    IF ~pm.ok THEN Fault(vm)
    ELSE
    LET type == pm.RM[1]
        loc  == pm.RM[2]
    IN
    IF ~CanGet(pm.vm, type, loc, sz) THEN Fault(pm.vm)
    ELSE IF reverse
    THEN LET data == Get(pm.vm, type, loc, sz)
         IN  Done([pm.vm EXCEPT !.reg = reg_set(pm.vm.reg, pm.R[2], data)])
    ELSE LET data == reg_get(pm.vm.reg, pm.R[2], pm.R[3])
         IN  Done(Set(pm.vm, type, loc, data))

\* index, TI, RPL = SRC >> 3, (SRC >> 2) & 1, SRC & 0b11
SelectorIndex(SRC) == (SRC[1] \div 8) + 32 * SRC[2]

SelectorTI(SRC) == Bit(SRC[1], 2)

MOV_sreg_rm(vm, reverse) ==
    LET sz == 2
        pm == process_ModRM(vm, sz, sz)
    IN
    IF ~pm.ok THEN Fault(vm)
    ELSE
    LET type == pm.RM[1]
        From == pm.RM[2]
        size == pm.RM[3]
    IN
    IF ~CanGet(pm.vm, type, From, size) THEN Fault(pm.vm)
    ELSE
    LET SRC   == Get(pm.vm, type, From, size)
        index == SelectorIndex(SRC)
    IN
    IF ~reverse
    THEN IF SelectorTI(SRC) = 0
         THEN IF index \notin DOMAIN pm.vm.GDT \/ pm.R[2] \notin DOMAIN pm.vm.sreg
              THEN Fault(pm.vm)
              ELSE Done([pm.vm EXCEPT !.sreg[pm.R[2]] =
                                         [selector |-> SRC, descr |-> pm.vm.GDT[index]]])
         ELSE Fault(pm.vm)     \* RuntimeError('LDT not implemented')
    ELSE Fault(pm.vm)          \* RuntimeError('mov r/m, sreg is not supported yet')

MOV_r_moffs(vm, b8, reverse) ==
    LET sz == IF b8 THEN 1 ELSE vm.operand_size
    IN
    IF ~InRange(vm.eip, vm.address_size) THEN Fault(vm)
    ELSE
    LET loc == Trunc(mem_get(vm.mem, vm.eip, vm.address_size), 4)
        vm1 == [vm EXCEPT !.eip = vm.eip + vm.address_size]
    IN
    IF ~InRange(AddrOf(loc), sz) THEN Fault(vm1)
    ELSE IF reverse
    THEN Done([vm1 EXCEPT !.mem = mem_set(vm1.mem, AddrOf(loc), reg_get(vm1.reg, 0, sz))])
    ELSE Done([vm1 EXCEPT !.reg = reg_set(vm1.reg, 0, mem_get(vm1.mem, AddrOf(loc), sz))])

\* PUSH.r that pushes EAX whatever the opcode
PUSH_r_eax(vm) ==
    LET sz   == vm.operand_size
        data == reg_get(vm.reg, 0, sz)
        ps   == stack_push(vm, data)
    IN  IF ~ps.ok THEN Fault(vm) ELSE Done(ps.vm)

PUSH_r(vm) ==
    LET sz   == vm.operand_size
        loc  == vm.opcode % 8
        data == reg_get(vm.reg, loc, sz)
        ps   == stack_push(vm, data)
    IN  IF ~ps.ok THEN Fault(vm) ELSE Done(ps.vm)

PUSH_rm(vm) ==
    LET old_eip == vm.eip
        sz      == vm.operand_size
        pm      == process_ModRM(vm, sz, sz)
    IN
    IF ~pm.ok THEN Fault(vm)
    ELSE IF pm.R[2] # 6 THEN Rewind(pm.vm, old_eip)
    ELSE
    LET type == pm.RM[1]
        loc  == pm.RM[2]
    IN
    IF ~CanGet(pm.vm, type, loc, sz) THEN Fault(pm.vm)
    ELSE LET ps == stack_push(pm.vm, Get(pm.vm, type, loc, sz))
         IN  IF ~ps.ok THEN Fault(pm.vm) ELSE Done(ps.vm)

POP_r(vm) ==
    LET sz  == vm.operand_size
        loc == vm.opcode % 8
        pp  == stack_pop(vm, sz)
    IN  IF ~pp.ok THEN Fault(vm)
        ELSE Done([pp.vm EXCEPT !.reg = reg_set(pp.vm.reg, loc, pp.data)])

POP_rm(vm) ==
    LET sz      == vm.operand_size
        old_eip == vm.eip
        pm      == process_ModRM(vm, sz, sz)
    IN
    IF ~pm.ok THEN Fault(vm)
    ELSE IF pm.R[2] # 0 THEN Rewind(pm.vm, old_eip)
    ELSE
    LET type == pm.RM[1]
        loc  == pm.RM[2]
        pp   == stack_pop(pm.vm, sz)
    IN
    IF ~pp.ok THEN Fault(pm.vm)
    ELSE IF ~CanGet(pp.vm, type, loc, sz) THEN Fault(pp.vm)
    ELSE Done(Set(pp.vm, type, loc, pp.data))

(***************************************************************************)
(* memory.py: PUSHF / PUSHFD and POPF / POPFD                              *)
(***************************************************************************)
\* The width of a stack address of the 32-bit flat model, in bytes
stack_address_size == 4

\* a mask that lets every bit of EFLAGS through
PUSHF_mask_all(vm) == <<255, 255, 255, 255>>

\* 0x00FCFFFF if vm.operand_size == 4 else 0x0000FFFF
PUSHF_mask(vm) ==
    IF vm.operand_size = 4 THEN <<255, 255, 252, 0>> ELSE <<255, 255, 0, 0>>

PUSHF_pushf(vm) ==
    LET tmpEFLAGS == operator("and_", vm.eflags, PUSHF_mask(vm))
        sp        == stack_push(vm, Trunc(tmpEFLAGS, stack_address_size))
    IN  IF sp.ok THEN Done(sp.vm) ELSE Fault(vm)

POPF_popf(vm) ==
    LET pp == stack_pop(vm, stack_address_size)
    IN  IF ~pp.ok THEN Fault(vm)
        ELSE Done([pp.vm EXCEPT !.eflags = operator("and_", Trunc(pp.data, 4),
                                                    Trunc(MAXVALS(vm.operand_size), 4))])

(***************************************************************************)
(* memory.py: PUSHA / PUSHAD and POPA / POPAD                              *)
(***************************************************************************)
regs_to_push_1 == <<0, 1, 2, 3>>
regs_to_push_2 == <<5, 6, 7>>

\* for reg in regs: vm.stack_push(vm.reg.get(reg, vm.operand_size))
RECURSIVE PushRegs(_, _, _)
PushRegs(st, regs, i) ==
    IF i > Len(regs) \/ ~st.ok THEN st
    ELSE PushRegs(stack_push(st.vm, reg_get(st.vm.reg, regs[i], st.vm.operand_size)),
                  regs, i + 1)

PUSHA_pusha(vm) ==
    LET Temp == reg_get(vm.reg, 4, vm.operand_size)
        s1   == PushRegs([ok |-> TRUE, vm |-> vm], regs_to_push_1, 1)
        s2   == IF s1.ok THEN stack_push(s1.vm, Temp) ELSE s1
        s3   == PushRegs(s2, regs_to_push_2, 1)
    IN  IF s3.ok THEN Done(s3.vm) ELSE Fault(s3.vm)

regs_to_pop_1 == <<7, 6, 5>>

\* regs_to_pop_2 in the order of the pushes
regs_to_pop_2_fwd == <<0, 1, 2, 3>>

regs_to_pop_2 == <<3, 2, 1, 0>>

\* for reg in regs: vm.reg.set(reg, vm.stack_pop(vm.operand_size))
RECURSIVE PopRegs(_, _, _)
PopRegs(st, regs, i) ==
    IF i > Len(regs) \/ ~st.ok THEN st
    ELSE LET pp == stack_pop(st.vm, st.vm.operand_size)
         IN  IF ~pp.ok THEN [ok |-> FALSE, vm |-> st.vm]
             ELSE PopRegs([ok |-> TRUE,
                           vm |-> [pp.vm EXCEPT !.reg = reg_set(pp.vm.reg, regs[i], pp.data)]],
                          regs, i + 1)

POPA_popa(vm) ==
    LET s1 == PopRegs([ok |-> TRUE, vm |-> vm], regs_to_pop_1, 1)
    IN
    IF ~s1.ok THEN Fault(s1.vm)
    ELSE
    LET esp == reg_get(s1.vm.reg, 4, vm.operand_size)
        \* esp + vm.operand_size, one byte wider than to_bytes(4, byteorder) can hold
        sum == AddK(Trunc(esp, 5), vm.operand_size)
    IN
    IF sum[5] # 0 THEN Fault(s1.vm)
    ELSE
    LET s2 == [ok |-> TRUE, vm |-> [s1.vm EXCEPT !.reg = reg_set(s1.vm.reg, 4, Trunc(sum, 4))]]
        s3 == PopRegs(s2, regs_to_pop_2, 1)
    IN  IF s3.ok THEN Done(s3.vm) ELSE Fault(s3.vm)

(***************************************************************************)
(* memory.py: LEA                                                          *)
(***************************************************************************)
\* LEA_tmp that keeps the whole address whatever the sizes
LEA_tmp_full(vm, loc) == loc

\* tmp: the address cut to the operand and address sizes
LEA_tmp(vm, loc) ==
    LET low16 == <<255, 255, 0, 0>>
        tmp   == CASE vm.operand_size = 2 /\ vm.address_size = 2 -> loc
                   [] vm.operand_size = 2 /\ vm.address_size = 4 -> operator("and_", loc, low16)
                   [] vm.operand_size = 4 /\ vm.address_size = 2 -> operator("and_", loc, low16)
                   [] vm.operand_size = 4 /\ vm.address_size = 4 -> loc
    IN  operator("and_", tmp, Trunc(MAXVALS(vm.address_size), 4))

LEA_r_rm(vm) ==
    LET pm == process_ModRM(vm, vm.address_size, vm.operand_size)
    IN
    IF ~pm.ok THEN Fault(vm)
    ELSE IF ~(vm.operand_size \in {2, 4} /\ vm.address_size \in {2, 4}) THEN Fault(pm.vm)
    ELSE
    LET loc  == pm.RM[2]
        data == LEA_tmp(pm.vm, loc)
    IN  Done([pm.vm EXCEPT !.reg = reg_set(pm.vm.reg, pm.R[2], Trunc(data, vm.operand_size))])

(***************************************************************************)
(* memory.py: XCHG                                                         *)
(***************************************************************************)
XCHG_eax_r(vm) ==
    LET sz  == vm.operand_size
        loc == vm.opcode % 8
    IN
    IF loc # 0
    THEN LET eax_val   == reg_get(vm.reg, 0, sz)
             other_val == reg_get(vm.reg, loc, sz)
             vm1       == [vm EXCEPT !.reg = reg_set(vm.reg, 0, other_val)]
         IN  Done([vm1 EXCEPT !.reg = reg_set(vm1.reg, loc, eax_val)])
    ELSE Done(vm)

XCHG_rm_r(vm, b8) ==
    LET sz == IF b8 THEN 1 ELSE vm.operand_size
        pm == process_ModRM(vm, sz, sz)
    IN
    IF ~pm.ok THEN Fault(vm)
    ELSE
    LET type == pm.RM[1]
        loc  == pm.RM[2]
    IN
    \* if loc != R[1]: the location, register index or address, against the reg field
    IF loc # FromInt(pm.R[2], 4)
    THEN IF ~CanGet(pm.vm, type, loc, sz) THEN Fault(pm.vm)
         ELSE LET a_val == Get(pm.vm, type, loc, sz)
                  b_val == reg_get(pm.vm.reg, pm.R[2], sz)
                  vm1   == Set(pm.vm, type, loc, b_val)
              IN  Done([vm1 EXCEPT !.reg = reg_set(vm1.reg, pm.R[2], a_val)])
    ELSE Done(pm.vm)

(***************************************************************************)
(* memory.py: CMPXCHG                                                      *)
(***************************************************************************)
\* the exchange that leaves the accumulator alone when the values differ
CMPXCHG_exchange_keep(vm, type, loc, sz, src, temp) ==
    IF eflags_get(vm.eflags, ZF) = 1
    THEN Set(vm, type, loc, reg_get(vm.reg, src, sz))
    ELSE Set(vm, type, loc, temp)

\* if vm.reg.eflags.ZF: dst := src register; else: accumulator := temp, dst := temp
CMPXCHG_exchange(vm, type, loc, sz, src, temp) ==
    IF eflags_get(vm.eflags, ZF) = 1
    THEN Set(vm, type, loc, reg_get(vm.reg, src, sz))
    ELSE Set([vm EXCEPT !.reg = reg_set(vm.reg, 0, temp)], type, loc, temp)

CMPXCHG_rm_r(vm, b8) ==
    LET sz == IF b8 THEN 1 ELSE vm.operand_size
        pm == process_ModRM(vm, sz, sz)
    IN
    IF ~pm.ok THEN Fault(vm)
    ELSE
    LET type == pm.RM[1]
        loc  == pm.RM[2]
    IN
    IF ~CanGet(pm.vm, type, loc, sz) THEN Fault(pm.vm)
    ELSE
    LET a      == reg_get(pm.vm.reg, 0, sz)
        b      == Get(pm.vm, type, loc, sz)
        c      == Sub(a, b)
        sign_a == MSB(a, sz)
        sign_b == MSB(b, sz)
        sign_c == MSB(c, sz)
        vm1    == SetFlag(pm.vm, OF, B2I(sign_a # sign_b /\ sign_a # sign_c))
        vm2    == SetFlag(vm1, CF, B2I(Less(a, b)))
        vm3    == SetFlag(vm2, AF, B2I(b[1] > a[1]))
        vm4    == SetFlag(vm3, SF, sign_c)
        \* vm.reg.eflags.PF, parity(c) is an expression statement: PF is not written
        vm5    == SetFlag(vm4, ZF, B2I(IsZero(c)))
    IN  Done(CMPXCHG_exchange(vm5, type, loc, sz, pm.R[2], b))

(***************************************************************************)
(* memory.py: CMC                                                          *)
(***************************************************************************)
\* cmc that sets CF
CMC_cmc_set(vm) == Done(SetFlag(vm, CF, 1))

CMC_cmc(vm) == Done(SetFlag(vm, CF, 1 - eflags_get(vm.eflags, CF)))

(***************************************************************************)
(* memory.py: MOVS                                                         *)
(***************************************************************************)
\* the index always moved upwards
MOVS_advance_up(vm, x, sz) == AddK(x, sz)

\* esi += sz or esi -= sz by DF, then esi &= MAXVALS[vm.address_size]
MOVS_advance(vm, x, sz) ==
    IF eflags_get(vm.eflags, DF) = 0 THEN AddK(x, sz) ELSE SubK(x, sz)

MOVS_movs(vm, b8) ==
    LET sz           == IF b8 THEN 1 ELSE vm.operand_size
        esi          == reg_get(vm.reg, 6, vm.address_size)
        edi          == reg_get(vm.reg, 7, vm.address_size)
        old_override == vm.segment_override
        vm1          == [vm EXCEPT !.segment_override = "DS"]
    IN
    IF ~InRange(AddrOf(Trunc(esi, 4)), sz) THEN Fault(vm1)
    ELSE
    LET esi_mem == mem_get(vm1.mem, AddrOf(Trunc(esi, 4)), sz)
        vm2     == [vm1 EXCEPT !.segment_override = "ES"]
    IN
    IF ~InRange(AddrOf(Trunc(edi, 4)), sz) THEN Fault(vm2)
    ELSE
    LET vm3 == [vm2 EXCEPT !.mem = mem_set(vm2.mem, AddrOf(Trunc(edi, 4)), esi_mem),
                           !.segment_override = old_override]
        vm4 == [vm3 EXCEPT !.reg = reg_set(vm3.reg, 6, MOVS_advance(vm3, esi, sz))]
    IN  Done([vm4 EXCEPT !.reg = reg_set(vm4.reg, 7, MOVS_advance(vm4, edi, sz))])
(***************************************************************************)
(* memory.py: BitScan                                                      *)
(***************************************************************************)
\* while SRC & 1 == 0: temp += 1; SRC >>= 1
RECURSIVE BitScan_loop(_, _)
BitScan_loop(SRC, temp) ==
    IF LSB(SRC) = 1 THEN temp
    ELSE CHOOSE r \in { BitScan_loop(x, temp + 1) : x \in {Shr1(SRC, 0)} } : TRUE

\* the store of a one-based bit position
BitScan_store_next(vm, r, sz, temp) == reg_set(vm.reg, r, FromInt(temp + 1, sz))

\* vm.reg.set(R[1], sz, temp)
BitScan_store(vm, r, sz, temp) == reg_set(vm.reg, r, FromInt(temp, sz))

BitScan_bsf(vm) ==
    LET sz == vm.operand_size
        pm == process_ModRM(vm, sz, sz)
    IN
    IF ~pm.ok THEN Fault(vm)
    ELSE
    LET type == pm.RM[1]
        loc  == pm.RM[2]
    IN
    IF ~CanGet(pm.vm, type, loc, sz) THEN Fault(pm.vm)
    ELSE
    LET SRC == Get(pm.vm, type, loc, sz)
    IN
    IF IsZero(SRC) THEN Done(SetFlag(pm.vm, ZF, 1))
    ELSE
    LET vm1  == SetFlag(pm.vm, ZF, 0)
        temp == BitScan_loop(SRC, 0)
    IN  Done([vm1 EXCEPT !.reg = BitScan_store(vm1, pm.R[2], sz, temp)])

(***************************************************************************)
(* kernel.py: the syscall handlers.  A handler returns None, or ends in a  *)
(* fault.                                                                  *)
(***************************************************************************)
Returned(vm) == [vm |-> vm, ret |-> "None"]

\* util.to_int(bytes, True) of 4 bytes: the signed integer
to_int_signed(bs) ==
    bs[1] + 256 * bs[2] + 65536 * bs[3]
        + 16777216 * (IF bs[4] >= 128 THEN bs[4] - 256 ELSE bs[4])

\* self.__return(value): EAX := value.to_bytes(4, byteorder, signed=value < 0)
SyscallsMixin_return(vm, value) ==
    Returned([vm EXCEPT !.reg = reg_set(vm.reg, 0, value)])

\* sys_exit that leaves the emulator running
sys_exit_on(vm) ==
    Returned([vm EXCEPT !.RETCODE = to_int_signed(reg_get(vm.reg, 3, 4))])

sys_exit(vm) ==
    Returned([vm EXCEPT !.RETCODE = to_int_signed(reg_get(vm.reg, 3, 4)),
                        !.running = FALSE])

sys_exit_group(vm) == sys_exit(vm)

\* self.descriptors[fd] of a 4-byte fd: the index, or -1 when the list has no such entry
FdOf(vm, fd) ==
    IF fd[2] = 0 /\ fd[3] = 0 /\ fd[4] = 0 /\ fd[1] \in DOMAIN vm.descriptors THEN fd[1]
    ELSE -1

\* os.lseek(fileno, offset, whence) on an endpoint, offset and positions 64 bits wide:
\* SEEK_SET, SEEK_CUR and SEEK_END; OSError for an endpoint that cannot seek, for
\* another whence and for a position that is negative as a signed number
os_lseek(ep, offset, whence) ==
    LET pos == CASE whence = Zeros(4)       -> offset
                 [] whence = <<1, 0, 0, 0>> -> Add(ep.pos, offset)
                 [] whence = <<2, 0, 0, 0>> -> Add(ep.size, offset)
                 [] OTHER                   -> Zeros(8)
    IN  IF ep.kind # "file" \/ ~Less(whence, <<3, 0, 0, 0>>) \/ pos[8] >= 128
        THEN [ok |-> FALSE, ep |-> ep, ret |-> pos]
        ELSE [ok |-> TRUE, ep |-> [ep EXCEPT !.pos = pos], ret |-> pos]

\* offset = (offset_high << 32) | offset_low
llseek_offset(offset_high, offset_low) == offset_low \o offset_high

\* offset & 0xFFFFFFFF
llseek_masked(offset) == SubSeq(offset, 1, 4) \o Zeros(4)

sys_llseek(vm) ==
    LET fd          == reg_get(vm.reg, 3, 4)
        offset_high == reg_get(vm.reg, 1, 4)
        offset_low  == reg_get(vm.reg, 2, 4)
        result_addr == reg_get(vm.reg, 6, 4)
        whence      == reg_get(vm.reg, 7, 4)
        offset      == llseek_offset(offset_high, offset_low)
    IN
    IF FdOf(vm, fd) = -1 THEN Fault(vm)
    ELSE
    LET r   == os_lseek(vm.descriptors[FdOf(vm, fd)], llseek_masked(offset), whence)
        vm1 == [vm EXCEPT !.descriptors[FdOf(vm, fd)] = r.ep]
    IN  IF ~r.ok THEN SyscallsMixin_return(vm, <<255, 255, 255, 255>>)
        \* ret.to_bytes(4, byteorder) of a position of more than 32 bits
        ELSE IF SubSeq(r.ret, 5, 8) # Zeros(4) THEN Fault(vm1)
        ELSE IF ~InRange(AddrOf(result_addr), 4) THEN Fault(vm1)
        ELSE SyscallsMixin_return(
                 [vm1 EXCEPT !.mem = mem_set(vm1.mem, AddrOf(result_addr),
                                             SubSeq(r.ret, 1, 4))],
                 Zeros(4))

\* struct_iovec.size: '<II'
struct_iovec_size == 4 + 4

\* self.descriptors[fd] of a signed fd, a negative one counting from the end of
\* the list: the index, or -1 when the list has no such entry
FdSigned(vm, fd) ==
    LET f == to_int_signed(fd)
        n == Cardinality(DOMAIN vm.descriptors)
    IN  IF f >= 0 /\ f < n THEN f
        ELSE IF f < 0 /\ f >= 0 - n THEN n + f
        ELSE -1

\* the length of a buffer of iov_len bytes, or more than the store holds
LenOf(iov_len) ==
    IF iov_len[2] = 0 /\ iov_len[3] = 0 /\ iov_len[4] = 0 THEN iov_len[1] ELSE MemSize + 1

\* os.write(fileno, buf), and for an endpoint without fileno() write(buf.decode('ascii'))
\* and flush(): one more write of the whole buffer; the decoding fails on a byte
\* above 127
endpoint_write(ep, buf) ==
    IF ep.kind = "text" /\ \E i \in 1..Len(buf) : buf[i] >= 128
    THEN [ok |-> FALSE, ep |-> ep, ret |-> 0]
    ELSE [ok |-> TRUE,
          ep |-> [ep EXCEPT !.written = Append(@, buf),
                            !.pos = IF ep.kind = "file" THEN AddK(@, Len(buf)) ELSE @],
          ret |-> Len(buf)]

\* an empty record that leaves iov_addr where it is
writev_skip_stay(iov_addr) == iov_addr

\* if not iov_len: iov_addr += struct_iovec.size
writev_skip(iov_addr) == AddK(iov_addr, struct_iovec_size)

\* for x in range(iovcnt): the iterations left, the address of the next record and
\* the size so far
RECURSIVE writev_loop(_, _, _, _, _)
writev_loop(vm, fd, iov_addr, left, size) ==
    IF left <= 0 THEN SyscallsMixin_return(vm, FromInt(size, 4))
    ELSE IF ~InRange(AddrOf(iov_addr), struct_iovec_size) THEN Fault(vm)
    ELSE
    LET rec      == mem_get(vm.mem, AddrOf(iov_addr), struct_iovec_size)
        iov_base == SubSeq(rec, 1, 4)
        iov_len  == SubSeq(rec, 5, 8)
    IN
    IF iov_len = Zeros(4)
    THEN CHOOSE r \in { writev_loop(vm, fd, a, left - 1, size) :
                            a \in {writev_skip(iov_addr)} } : TRUE
    ELSE IF ~InRange(AddrOf(iov_base), LenOf(iov_len)) THEN Fault(vm)
    ELSE IF FdSigned(vm, fd) = -1 THEN Fault(vm)
    ELSE
    LET buf == mem_get(vm.mem, AddrOf(iov_base), LenOf(iov_len))
        w   == endpoint_write(vm.descriptors[FdSigned(vm, fd)], buf)
    IN  IF ~w.ok THEN Fault(vm)
        ELSE CHOOSE r \in { writev_loop(v, fd, a, left - 1, size + w.ret) :
                               v \in {[vm EXCEPT !.descriptors[FdSigned(vm, fd)] = w.ep]},
                               a \in {AddK(iov_addr, struct_iovec_size)} } : TRUE

sys_writev(vm) ==
    LET fd       == reg_get(vm.reg, 3, 4)
        iov_addr == reg_get(vm.reg, 1, 4)
        iovcnt   == to_int_signed(reg_get(vm.reg, 2, 4))
    IN  writev_loop(vm, fd, iov_addr, iovcnt, 0)

\* min_brk taken as 0
min_brk_zero(vm) == Zeros(4)

\* min_brk = self.code_segment_end
min_brk(vm) == vm.code_segment_end

sys_brk(vm) ==
    LET brk    == reg_get(vm.reg, 3, 4)
        oldbrk == vm.program_break
    IN  IF Less(brk, min_brk(vm))
        THEN Returned([vm EXCEPT !.reg = reg_set(vm.reg, 0, vm.program_break)])
        ELSE IF oldbrk = brk THEN SyscallsMixin_return(vm, oldbrk)
        ELSE SyscallsMixin_return([vm EXCEPT !.program_break = brk], brk)

\* struct_user_desc.size: '<ILIBH4B'
user_desc_size == 4 + 4 + 4 + 1 + 2 + 4

\* segment_present = (info >> 8) & 1
segment_present(info) == (info \div 256) % 2

\* the entries of self.GDT[1:] the loop does not skip
FreeEntries(gdt) ==
    { i \in DOMAIN gdt : i >= 1 /\ segment_present(gdt[i][3]) = 0 }

\* the least element of a non-empty set of indices
Least(S) == CHOOSE i \in S : \A j \in S : i <= j

\* the descriptor the loop body packs from entry and the user_desc fields
NewDescriptor(entry, base_addr, limit) ==
    LET limit2 == BitOp8("and_", entry[2], 240, 0) + BitOp8("and_", limit[3], 15, 0)
        info   == BitOp8("or_", entry[3], 128, 0)
    IN  <<base_addr[4], limit2, info, base_addr[3], base_addr[1], base_addr[2],
          limit[1], limit[2]>>

sys_set_thread_area(vm) ==
    LET u_info_addr == reg_get(vm.reg, 3, 4)
    IN
    IF ~InRange(AddrOf(u_info_addr), user_desc_size) THEN Fault(vm)
    ELSE
    LET u_info       == mem_get(vm.mem, AddrOf(u_info_addr), user_desc_size)
        entry_number == SubSeq(u_info, 1, 4)
        base_addr    == SubSeq(u_info, 5, 8)
        limit        == SubSeq(u_info, 9, 12)
        last         == Cardinality(DOMAIN vm.GDT) - 1
        scan         == entry_number = <<255, 255, 255, 255>>
        free         == FreeEntries(vm.GDT)
        \* selector_index when the loop ends: where it broke, else the last index
        \* it visited, else the 0 it was initialised with
        selector_index == IF ~scan \/ last < 1 THEN 0
                          ELSE IF free # {} THEN Least(free) ELSE last
        gdt1 == IF scan /\ free # {}
                THEN [vm.GDT EXCEPT ![selector_index] = NewDescriptor(@, base_addr, limit)]
                ELSE vm.GDT
        vm1  == [vm EXCEPT !.GDT = gdt1,
                           !.mem = mem_set(vm.mem, AddrOf(u_info_addr),
                                           FromInt(selector_index, 4))]
    IN  SyscallsMixin_return(vm1, Zeros(4))
(* The opcode tables (self.opcodes of each instruction class).  A slot is  *)
(* the ordered list of its candidates; a candidate is the handler with the *)
(* arguments bound to it by partialmethod.                                 *)
(***************************************************************************)
Cand(h, b8, b8imm, operation, test) ==
    [h |-> h, b8 |-> b8, b8imm |-> b8imm, operation |-> operation, test |-> test,
     cnt |-> "none", reverse |-> FALSE]

BITWISE_opcodes(opc) ==
    CASE opc = 36  -> <<Cand("BITWISE.r_imm", TRUE, TRUE, "and_", FALSE)>>       \* 0x24
      [] opc = 37  -> <<Cand("BITWISE.r_imm", FALSE, FALSE, "and_", FALSE)>>     \* 0x25
      [] opc = 128 -> <<Cand("BITWISE.rm_imm", TRUE, TRUE, "and_", FALSE),       \* 0x80
                        Cand("BITWISE.rm_imm", TRUE, TRUE, "or_", FALSE),
                        Cand("BITWISE.rm_imm", TRUE, TRUE, "xor", FALSE)>>
      [] opc = 129 -> <<Cand("BITWISE.rm_imm", FALSE, FALSE, "and_", FALSE),     \* 0x81
                        Cand("BITWISE.rm_imm", FALSE, FALSE, "or_", FALSE),
                        Cand("BITWISE.rm_imm", FALSE, FALSE, "xor", FALSE)>>
      [] opc = 131 -> <<Cand("BITWISE.rm_imm", FALSE, TRUE, "and_", FALSE),      \* 0x83
                        Cand("BITWISE.rm_imm", FALSE, TRUE, "or_", FALSE),
                        Cand("BITWISE.rm_imm", FALSE, TRUE, "xor", FALSE)>>
      [] opc = 32  -> <<Cand("BITWISE.rm_r", TRUE, TRUE, "and_", FALSE)>>        \* 0x20
      [] opc = 33  -> <<Cand("BITWISE.rm_r", FALSE, FALSE, "and_", FALSE)>>      \* 0x21
      [] opc = 34  -> <<Cand("BITWISE.r_rm", TRUE, TRUE, "and_", FALSE)>>        \* 0x22
      [] opc = 35  -> <<Cand("BITWISE.r_rm", FALSE, FALSE, "and_", FALSE)>>      \* 0x23
      [] opc = 12  -> <<Cand("BITWISE.r_imm", TRUE, TRUE, "or_", FALSE)>>        \* 0x0C
      [] opc = 13  -> <<Cand("BITWISE.r_imm", FALSE, FALSE, "or_", FALSE)>>      \* 0x0D
      [] opc = 8   -> <<Cand("BITWISE.rm_r", TRUE, TRUE, "or_", FALSE)>>         \* 0x08
      [] opc = 9   -> <<Cand("BITWISE.rm_r", FALSE, FALSE, "or_", FALSE)>>       \* 0x09
      [] opc = 10  -> <<Cand("BITWISE.r_rm", TRUE, TRUE, "or_", FALSE)>>         \* 0x0A
      [] opc = 11  -> <<Cand("BITWISE.r_rm", FALSE, FALSE, "or_", FALSE)>>       \* 0x0B
      [] opc = 52  -> <<Cand("BITWISE.r_imm", TRUE, TRUE, "xor", FALSE)>>        \* 0x34
      [] opc = 53  -> <<Cand("BITWISE.r_imm", FALSE, FALSE, "xor", FALSE)>>      \* 0x35
      [] opc = 48  -> <<Cand("BITWISE.rm_r", TRUE, TRUE, "xor", FALSE)>>         \* 0x30
      [] opc = 49  -> <<Cand("BITWISE.rm_r", FALSE, FALSE, "xor", FALSE)>>       \* 0x31
      [] opc = 50  -> <<Cand("BITWISE.r_rm", TRUE, TRUE, "xor", FALSE)>>         \* 0x32
      [] opc = 51  -> <<Cand("BITWISE.r_rm", FALSE, FALSE, "xor", FALSE)>>       \* 0x33
      [] opc = 168 -> <<Cand("BITWISE.r_imm", TRUE, TRUE, "and_", TRUE)>>        \* 0xA8
      [] opc = 169 -> <<Cand("BITWISE.r_imm", FALSE, FALSE, "and_", TRUE)>>      \* 0xA9
      [] opc = 246 -> <<Cand("BITWISE.rm_imm", TRUE, TRUE, "and_", TRUE)>>       \* 0xF6
      [] opc = 247 -> <<Cand("BITWISE.rm_imm", FALSE, FALSE, "and_", TRUE)>>     \* 0xF7
      [] opc = 132 -> <<Cand("BITWISE.rm_r", TRUE, TRUE, "and_", TRUE)>>         \* 0x84
      [] opc = 133 -> <<Cand("BITWISE.rm_r", FALSE, FALSE, "and_", TRUE)>>       \* 0x85
      [] OTHER     -> <<>>

BITWISE_codes == {36, 37, 128, 129, 131, 32, 33, 34, 35, 12, 13, 8, 9, 10, 11,
                  52, 53, 48, 49, 50, 51, 168, 169, 246, 247, 132, 133}

CandS(h, operation, cnt, b8) ==
    [h |-> h, b8 |-> b8, b8imm |-> FALSE, operation |-> operation, test |-> FALSE,
     cnt |-> cnt, reverse |-> FALSE]

CandR(h, b8, reverse) ==
    [h |-> h, b8 |-> b8, b8imm |-> FALSE, operation |-> "mov", test |-> FALSE,
     cnt |-> "none", reverse |-> reverse]

NEGNOT_opcodes(opc) ==
    CASE opc = 246 -> <<CandS("NEGNOT.rm", "neg", "none", TRUE),                 \* 0xF6
                        CandS("NEGNOT.rm", "not", "none", TRUE)>>
      [] opc = 247 -> <<CandS("NEGNOT.rm", "neg", "none", FALSE),                \* 0xF7
                        CandS("NEGNOT.rm", "not", "none", FALSE)>>
      [] OTHER     -> <<>>

SHIFT_opcodes(opc) ==
    CASE opc = 208 -> <<CandS("SHIFT.shift", "SHL", "C_ONE", TRUE),              \* 0xD0
                        CandS("SHIFT.shift", "SHR", "C_ONE", TRUE),
                        CandS("SHIFT.shift", "SAR", "C_ONE", TRUE)>>
      [] opc = 210 -> <<CandS("SHIFT.shift", "SHL", "C_CL", TRUE),               \* 0xD2
                        CandS("SHIFT.shift", "SHR", "C_CL", TRUE),
                        CandS("SHIFT.shift", "SAR", "C_CL", TRUE)>>
      [] opc = 192 -> <<CandS("SHIFT.shift", "SHL", "C_imm8", TRUE),             \* 0xC0
                        CandS("SHIFT.shift", "SHR", "C_imm8", TRUE),
                        CandS("SHIFT.shift", "SAR", "C_imm8", TRUE)>>
      [] opc = 209 -> <<CandS("SHIFT.shift", "SHL", "C_ONE", FALSE),             \* 0xD1
                        CandS("SHIFT.shift", "SHR", "C_ONE", FALSE),
                        CandS("SHIFT.shift", "SAR", "C_ONE", FALSE)>>
      [] opc = 211 -> <<CandS("SHIFT.shift", "SHL", "C_CL", FALSE),              \* 0xD3
                        CandS("SHIFT.shift", "SAR", "C_CL", FALSE),
                        CandS("SHIFT.shift", "SHR", "C_CL", FALSE)>>
      [] opc = 193 -> <<CandS("SHIFT.shift", "SHL", "C_imm8", FALSE),            \* 0xC1
                        CandS("SHIFT.shift", "SHR", "C_imm8", FALSE),
                        CandS("SHIFT.shift", "SAR", "C_imm8", FALSE)>>
      [] OTHER     -> <<>>

SHIFT_codes == {208, 210, 192, 209, 211, 193}

MOV_opcodes(opc) ==
    CASE opc \in 176..183 -> <<CandS("MOV.r_imm", "mov", "none", TRUE)>>         \* 0xB0-0xB7
      [] opc \in 184..191 -> <<CandS("MOV.r_imm", "mov", "none", FALSE)>>        \* 0xB8-0xBF
      [] opc = 198 -> <<CandS("MOV.rm_imm", "mov", "none", TRUE)>>               \* 0xC6
      [] opc = 199 -> <<CandS("MOV.rm_imm", "mov", "none", FALSE)>>              \* 0xC7
      [] opc = 136 -> <<CandR("MOV.rm_r", TRUE, FALSE)>>                         \* 0x88
      [] opc = 137 -> <<CandR("MOV.rm_r", FALSE, FALSE)>>                        \* 0x89
      [] opc = 138 -> <<CandR("MOV.rm_r", TRUE, TRUE)>>                          \* 0x8A
      [] opc = 139 -> <<CandR("MOV.rm_r", FALSE, TRUE)>>                         \* 0x8B
      [] opc = 140 -> <<CandR("MOV.sreg_rm", FALSE, TRUE)>>                      \* 0x8C
      [] opc = 142 -> <<CandR("MOV.sreg_rm", FALSE, FALSE)>>                     \* 0x8E
      [] opc = 160 -> <<CandR("MOV.r_moffs", TRUE, FALSE)>>                      \* 0xA0
      [] opc = 161 -> <<CandR("MOV.r_moffs", FALSE, FALSE)>>                     \* 0xA1
      [] opc = 162 -> <<CandR("MOV.r_moffs", TRUE, TRUE)>>                       \* 0xA2
      [] opc = 163 -> <<CandR("MOV.r_moffs", FALSE, TRUE)>>                      \* 0xA3
      [] OTHER     -> <<>>

PUSH_opcodes(opc) ==
    CASE opc \in 80..87 -> <<CandS("PUSH.r", "push", "none", FALSE)>>            \* 0x50-0x57
      [] opc = 255      -> <<CandS("PUSH.rm", "push", "none", FALSE)>>           \* 0xFF
      [] OTHER          -> <<>>

POP_opcodes(opc) ==
    CASE opc \in 88..95 -> <<CandS("POP.r", "pop", "none", FALSE)>>              \* 0x58-0x5F
      [] opc = 143      -> <<CandS("POP.rm", "pop", "none", FALSE)>>             \* 0x8F
      [] OTHER          -> <<>>

XCHG_opcodes(opc) ==
    CASE opc \in 144..151 -> <<CandS("XCHG.eax_r", "xchg", "none", FALSE)>>      \* 0x90-0x97
      [] opc = 134 -> <<CandS("XCHG.rm_r", "xchg", "none", TRUE)>>               \* 0x86
      [] opc = 135 -> <<CandS("XCHG.rm_r", "xchg", "none", FALSE)>>              \* 0x87
      [] OTHER     -> <<>>

PUSHF_opcodes(opc) ==
    IF opc = 156 THEN <<CandS("PUSHF.pushf", "pushf", "none", FALSE)>> ELSE <<>>  \* 0x9C

POPF_opcodes(opc) ==
    IF opc = 157 THEN <<CandS("POPF.popf", "popf", "none", FALSE)>> ELSE <<>>     \* 0x9D

PUSHA_opcodes(opc) ==
    IF opc = 96 THEN <<CandS("PUSHA.pusha", "pusha", "none", FALSE)>> ELSE <<>>  \* 0x60

POPA_opcodes(opc) ==
    IF opc = 97 THEN <<CandS("POPA.popa", "popa", "none", FALSE)>> ELSE <<>>     \* 0x61

LEA_opcodes(opc) ==
    IF opc = 141 THEN <<CandS("LEA.r_rm", "lea", "none", FALSE)>> ELSE <<>>      \* 0x8D

CMPXCHG_opcodes(opc) ==
    CASE opc = 4016 -> <<CandS("CMPXCHG.rm_r", "cmpxchg", "none", TRUE)>>        \* 0x0FB0
      [] opc = 4017 -> <<CandS("CMPXCHG.rm_r", "cmpxchg", "none", FALSE)>>       \* 0x0FB1
      [] OTHER      -> <<>>

CMC_opcodes(opc) ==
    IF opc = 245 THEN <<CandS("CMC.cmc", "cmc", "none", FALSE)>> ELSE <<>>       \* 0xF5

MOVS_opcodes(opc) ==
    CASE opc = 164 -> <<CandS("MOVS.movs", "movs", "none", TRUE)>>               \* 0xA4
      [] opc = 165 -> <<CandS("MOVS.movs", "movs", "none", FALSE)>>              \* 0xA5
      [] OTHER     -> <<>>

SHIFTD_opcodes(opc) ==
    CASE opc = 4004 -> <<CandS("SHIFTD.shift", "SHL", "C_imm8", FALSE)>>         \* 0x0FA4
      [] opc = 4005 -> <<CandS("SHIFTD.shift", "SHL", "C_CL", FALSE)>>           \* 0x0FA5
      [] opc = 4012 -> <<CandS("SHIFTD.shift", "SHR", "C_imm8", FALSE)>>         \* 0x0FAC
      [] opc = 4013 -> <<CandS("SHIFTD.shift", "SHR", "C_CL", FALSE)>>           \* 0x0FAD
      [] OTHER      -> <<>>

BitScan_opcodes(opc) ==
    IF opc = 4028 THEN <<CandS("BitScan.bsf", "bsf", "none", FALSE)>> ELSE <<>>  \* 0x0FBC

\* The slot of an opcode in the global opcode map: the candidates of every class
\* that registers the opcode
OpcodeSlot(opc) ==
    BITWISE_opcodes(opc) \o NEGNOT_opcodes(opc) \o SHIFT_opcodes(opc)
        \o MOV_opcodes(opc) \o PUSH_opcodes(opc) \o PUSHA_opcodes(opc)
        \o POPA_opcodes(opc) \o POP_opcodes(opc) \o LEA_opcodes(opc)
        \o CMPXCHG_opcodes(opc) \o CMC_opcodes(opc) \o MOVS_opcodes(opc)
        \o BitScan_opcodes(opc) \o SHIFTD_opcodes(opc)
        \o PUSHF_opcodes(opc) \o POPF_opcodes(opc) \o XCHG_opcodes(opc)

\* Calling a candidate: the handler applied to the arguments bound to it
Call(e, vm) ==
    CASE e.h = "BITWISE.r_imm"  -> BITWISE_r_imm(vm, e.b8, e.operation, e.test)
      [] e.h = "BITWISE.rm_imm" -> BITWISE_rm_imm(vm, e.b8, e.b8imm, e.operation, e.test)
      [] e.h = "BITWISE.rm_r"   -> BITWISE_rm_r(vm, e.b8, e.operation, e.test)
      [] e.h = "BITWISE.r_rm"   -> BITWISE_r_rm(vm, e.b8, e.operation, e.test)
      [] e.h = "NEGNOT.rm"      -> NEGNOT_rm(vm, e.b8, e.operation)
      [] e.h = "SHIFT.shift"    -> SHIFT_shift(vm, e.operation, e.cnt, e.b8)
      [] e.h = "MOV.rm_imm"     -> MOV_rm_imm(vm, e.b8)
      [] e.h = "MOV.r_imm"      -> MOV_r_imm(vm, e.b8)
      [] e.h = "MOV.rm_r"       -> MOV_rm_r(vm, e.b8, e.reverse)
      [] e.h = "MOV.r_moffs"    -> MOV_r_moffs(vm, e.b8, e.reverse)
      [] e.h = "MOV.sreg_rm"    -> MOV_sreg_rm(vm, e.reverse)
      [] e.h = "PUSH.r"         -> PUSH_r(vm)
      [] e.h = "PUSH.rm"        -> PUSH_rm(vm)
      [] e.h = "POP.r"          -> POP_r(vm)
      [] e.h = "POP.rm"         -> POP_rm(vm)
      [] e.h = "PUSHA.pusha"    -> PUSHA_pusha(vm)
      [] e.h = "POPA.popa"      -> POPA_popa(vm)
      [] e.h = "LEA.r_rm"       -> LEA_r_rm(vm)
      [] e.h = "CMPXCHG.rm_r"   -> CMPXCHG_rm_r(vm, e.b8)
      [] e.h = "CMC.cmc"        -> CMC_cmc(vm)
      [] e.h = "MOVS.movs"      -> MOVS_movs(vm, e.b8)
      [] e.h = "BitScan.bsf"    -> BitScan_bsf(vm)
      [] e.h = "SHIFTD.shift"   -> SHIFTD_shift(vm, e.operation, e.cnt)
      [] e.h = "PUSHF.pushf"    -> PUSHF_pushf(vm)
      [] e.h = "POPF.popf"      -> POPF_popf(vm)
      [] e.h = "XCHG.eax_r"     -> XCHG_eax_r(vm)
      [] e.h = "XCHG.rm_r"      -> XCHG_rm_r(vm, e.b8)

(***************************************************************************)
(* Running a handler: the state handed to it and the state it leaves.      *)
(***************************************************************************)
VM == [reg |-> reg, eflags |-> eflags, eip |-> eip, mem |-> mem,
       segment_override |-> segment_override, operand_size |-> operand_size,
       address_size |-> address_size, opcode |-> opcode,
       running |-> running, RETCODE |-> RETCODE, program_break |-> program_break,
       code_segment_end |-> code_segment_end, GDT |-> GDT, sreg |-> sreg,
       descriptors |-> descriptors]

\* The part of the state a handler leaves outside the registers and the memory
CommitSys(res) ==
    /\ running' = res.vm.running
    /\ RETCODE' = res.vm.RETCODE
    /\ program_break' = res.vm.program_break
    /\ code_segment_end' = res.vm.code_segment_end
    /\ GDT' = res.vm.GDT
    /\ sreg' = res.vm.sreg
    /\ descriptors' = res.vm.descriptors

Commit(e, res) ==
    /\ reg' = res.vm.reg
    /\ eflags' = res.vm.eflags
    /\ eip' = res.vm.eip
    /\ mem' = res.vm.mem
    /\ segment_override' = res.vm.segment_override
    /\ ret' = res.ret
    /\ log' = Append(log, [e |-> e, pre |-> VM])
    /\ CommitSys(res)
    /\ UNCHANGED <<operand_size, address_size, opcode, inp>>

\* The last handler call and the state before it
Last == log[Len(log)]
Pre  == Last.pre

(***************************************************************************)
(* The inputs of the runs: operand values and the machine they are put in. *)
(***************************************************************************)
Vals4 == { <<0, 0, 0, 0>>, <<255, 255, 255, 255>>, <<1, 0, 0, 128>>,
           <<128, 128, 0, 0>>, <<15, 0, 255, 127>>, <<240, 127, 0, 0>> }

Vals(sz) == { Trunc(v, sz) : v \in Vals4 }

\* Address of the memory operand of the runs that use one
DataAddr == 8

BaseReg == [i \in 0..7 |-> <<16 + i, 32 + i, 64 + i, 96 + i>>]

BaseMem == [x \in 0..(MemSize - 1) |-> (x * 7 + 3) % 256]

BaseFlags == {<<0, 0, 0, 0>>, <<215, 12, 0, 0>>}

\* The bytes after the opcode laid out at CodeBase
WithCode(m, code) == mem_set(m, CodeBase, code)

\* ModR/M byte
ModRM(mod, regf, rm) == mod * 64 + regf * 8 + rm

\* The r/m operand of the runs: register EBX/BL, register EDI/BH, or memory at [EBX]
RMKinds == {"reg3", "reg7", "mem"}

RMIndex(kind) == IF kind = "reg7" THEN 7 ELSE 3

RMByte(kind, regf) == ModRM(IF kind = "mem" THEN 0 ELSE 3, regf, RMIndex(kind))

\* registers and memory with value a placed in the r/m operand
PlaceRM(regs, m, kind, a) ==
    IF kind = "mem"
    THEN [reg |-> reg_set(regs, 3, FromInt(DataAddr, 4)), mem |-> mem_set(m, DataAddr, a)]
    ELSE [reg |-> reg_set(regs, RMIndex(kind), a), mem |-> m]

\* the r/m operand of a state
ReadRM(regs, m, kind, sz) ==
    IF kind = "mem" THEN mem_get(m, DataAddr, sz) ELSE reg_get(regs, RMIndex(kind), sz)

\* The /digit of the IA-32 encoding of a group instruction: the reg field of the
\* ModR/M byte that selects it within its opcode
Digit(e) ==
    CASE e.h = "BITWISE.rm_imm" /\ e.test                -> 0
      [] e.h = "BITWISE.rm_imm" /\ e.operation = "and_"  -> 4
      [] e.h = "BITWISE.rm_imm" /\ e.operation = "or_"   -> 1
      [] e.h = "BITWISE.rm_imm" /\ e.operation = "xor"   -> 6
      [] e.h = "NEGNOT.rm" /\ e.operation = "not"        -> 2
      [] e.h = "NEGNOT.rm" /\ e.operation = "neg"        -> 3
      [] e.h = "SHIFT.shift" /\ e.operation = "SHL"      -> 4
      [] e.h = "SHIFT.shift" /\ e.operation = "SHR"      -> 5
      [] e.h = "SHIFT.shift" /\ e.operation = "SAR"      -> 7

\* A descriptor of the GDT: the 8 bytes base3, limit2, info, base2, base1 (2),
\* limit1 (2); bit 7 of info is the present bit
Descriptor(base3, limit2, info, base2, base1, limit1) ==
    <<base3, limit2, info, base2>> \o FromInt(base1, 2) \o FromInt(limit1, 2)

\* The GDT of the runs that do not draw one: the null descriptor and two present ones
BaseGDT == [i \in 0..2 |-> IF i = 0 THEN Zeros(8)
                           ELSE Descriptor(0, 207, 146 + 8 * (2 - i), 0, 0, 65535)]

\* The segment registers ES, CS, SS, DS, FS, GS (SegmentRegs 0..5) with the null selector
BaseSreg == [i \in 0..5 |-> [selector |-> <<0, 0>>, descr |-> Zeros(8)]]

\* A host endpoint: a regular file can seek and has a 64-bit position, a pipe or
\* a terminal cannot; written holds the bytes written to it so far, in order
Endpoint(kind, pos, size) == [kind |-> kind, pos |-> pos, size |-> size, written |-> <<>>]

\* The endpoints of the runs that do not draw them: the three standard streams
BaseDescriptors == [fd \in 0..2 |-> Endpoint("pipe", Zeros(8), Zeros(8))]

\* The state outside the registers and the memory in the runs that do not draw it
InitSystem ==
    /\ running = TRUE
    /\ RETCODE = 0
    /\ program_break = FromInt(MemSize, 4)
    /\ code_segment_end = FromInt(MemSize, 4)
    /\ descriptors = BaseDescriptors
    /\ GDT = BaseGDT
    /\ sreg = BaseSreg

InitCommon ==
    /\ InitSystem
    /\ segment_override = "none"
    /\ address_size = 4
    /\ eip = CodeBase
    /\ ret = "none"
    /\ log = <<>>

(***************************************************************************)
(* SpecLogic: one AND / OR / XOR / TEST instruction on drawn operands.     *)
(***************************************************************************)
InitLogic ==
    /\ InitCommon
    /\ \E opc \in BITWISE_codes, osz \in {2, 4}, kind \in RMKinds, fl \in BaseFlags :
       \E c \in 1..Len(BITWISE_opcodes(opc)) :
         LET e      == BITWISE_opcodes(opc)[c]
             sz     == IF e.b8 THEN 1 ELSE osz
             imm_sz == IF e.b8imm THEN 1 ELSE osz
         IN  \E a \in Vals(sz), bsrc \in Vals(sz) :
               LET imm   == Trunc(bsrc, imm_sz)
                   b     == IF e.h = "BITWISE.rm_imm" THEN sign_extend(imm, sz) ELSE bsrc
                   regf  == IF e.h = "BITWISE.rm_imm" THEN Digit(e) ELSE 1
                   pl    == IF e.h = "BITWISE.r_imm"
                            THEN [reg |-> reg_set(BaseReg, 0, a), mem |-> BaseMem]
                            ELSE PlaceRM(BaseReg, BaseMem, kind, a)
                   regs  == IF e.h \in {"BITWISE.rm_r", "BITWISE.r_rm"}
                            THEN reg_set(pl.reg, 1, b) ELSE pl.reg
                   code  == CASE e.h = "BITWISE.r_imm"  -> b
                              [] e.h = "BITWISE.rm_imm" -> <<RMByte(kind, regf)>> \o imm
                              [] OTHER                  -> <<RMByte(kind, regf)>>
               IN  /\ opcode = opc
                   /\ operand_size = osz
                   /\ cand = c
                   /\ reg = regs
                   /\ mem = WithCode(pl.mem, code)
                   /\ eflags = fl
                   /\ inp = [a |-> a, b |-> b, sz |-> sz, kind |-> kind, e |-> e]

Ready == ret = "none" /\ log = <<>>

Logic_r_imm ==
    /\ Ready /\ inp.e.h = "BITWISE.r_imm"
    /\ Commit(inp.e, BITWISE_r_imm(VM, inp.e.b8, inp.e.operation, inp.e.test))
    /\ UNCHANGED cand

Logic_rm_imm ==
    /\ Ready /\ inp.e.h = "BITWISE.rm_imm"
    /\ Commit(inp.e, BITWISE_rm_imm(VM, inp.e.b8, inp.e.b8imm, inp.e.operation, inp.e.test))
    /\ UNCHANGED cand

Logic_rm_r ==
    /\ Ready /\ inp.e.h = "BITWISE.rm_r"
    /\ Commit(inp.e, BITWISE_rm_r(VM, inp.e.b8, inp.e.operation, inp.e.test))
    /\ UNCHANGED cand

Logic_r_rm ==
    /\ Ready /\ inp.e.h = "BITWISE.r_rm"
    /\ Commit(inp.e, BITWISE_r_rm(VM, inp.e.b8, inp.e.operation, inp.e.test))
    /\ UNCHANGED cand

NextLogic == Logic_r_imm \/ Logic_rm_imm \/ Logic_rm_r \/ Logic_r_rm

SpecLogic == InitLogic /\ [][NextLogic]_vars

(***************************************************************************)
(* Reference semantics used by the properties: the bits of a value and     *)
(* the truth tables of the logical operations.                             *)
(***************************************************************************)
ValBit(bs, i) == Bit(bs[(i \div 8) + 1], i % 8)

RefBit(operation, x, y) ==
    CASE operation = "and_" -> x = 1 /\ y = 1
      [] operation = "or_"  -> x = 1 \/ y = 1
      [] operation = "xor"  -> x # y

\* C2: after AND, OR, XOR or TEST in any form and any size, OF = 0, CF = 0,
\* SF is the top bit of the result, ZF = 1 iff the result is 0, and PF = 1 iff
\* the low byte of the result has an even number of set bits.
C2_LogicFlags ==
    (log # <<>> /\ ret = "True") =>
        LET n   == 8 * inp.sz
            set == {i \in 0..(n - 1) :
                       RefBit(inp.e.operation, ValBit(inp.a, i), ValBit(inp.b, i))}
        IN  /\ eflags_get(eflags, OF) = 0
            /\ eflags_get(eflags, CF) = 0
            /\ eflags_get(eflags, SF) = B2I((n - 1) \in set)
            /\ eflags_get(eflags, ZF) = B2I(set = {})
            /\ eflags_get(eflags, PF) = B2I(Cardinality(set \cap (0..7)) % 2 = 0)

\* A 32-bit TEST of two nonzero operands with a zero result, entered with OF and
\* CF set, has run.
C2_Witness ==
    /\ log # <<>> /\ ret = "True"
    /\ inp.e.test /\ inp.sz = 4 /\ inp.kind = "mem"
    /\ ~IsZero(inp.a) /\ ~IsZero(inp.b)
    /\ eflags_get(Pre.eflags, OF) = 1 /\ eflags_get(Pre.eflags, CF) = 1
    /\ eflags_get(eflags, ZF) = 1

(***************************************************************************)
(* SpecShift: one SHL / SHR / SAR instruction on a drawn operand and count.*)
(***************************************************************************)
\* Shift counts as found in CL or in the imm8 byte
Counts == {0, 1, 2, 7, 9, 31, 32, 33, 64, 255}

\* Operands of the shifts: the common values and the sign bit alone
ShiftVals(sz) == Vals(sz) \cup { [i \in 1..sz |-> IF i = sz THEN 128 ELSE 0] }

InitShift ==
    /\ InitCommon
    /\ address_size = 4
    /\ \E opc \in SHIFT_codes, c \in 1..3, osz \in {2, 4}, kind \in RMKinds,
          fl \in BaseFlags :
         LET e  == SHIFT_opcodes(opc)[c]
             sz == IF e.b8 THEN 1 ELSE osz
         IN  \E a \in ShiftVals(sz), count \in (IF e.cnt = "C_ONE" THEN {1} ELSE Counts) :
               LET pl   == PlaceRM(BaseReg, BaseMem, kind, a)
                   regs == IF e.cnt = "C_CL" THEN reg_set(pl.reg, 1, <<count>>) ELSE pl.reg
                   code == <<RMByte(kind, Digit(e))>>
                              \o (IF e.cnt = "C_imm8" THEN <<count>> ELSE <<>>)
               IN  /\ opcode = opc
                   /\ operand_size = osz
                   /\ cand = c
                   /\ reg = regs
                   /\ mem = WithCode(pl.mem, code)
                   /\ eflags = fl
                   /\ inp = [a |-> a, count |-> count, sz |-> sz, kind |-> kind, e |-> e]

Shift_SHL ==
    /\ Ready /\ inp.e.operation = "SHL"
    /\ Commit(inp.e, SHIFT_shift(VM, "SHL", inp.e.cnt, inp.e.b8))
    /\ UNCHANGED cand

Shift_SHR ==
    /\ Ready /\ inp.e.operation = "SHR"
    /\ Commit(inp.e, SHIFT_shift(VM, "SHR", inp.e.cnt, inp.e.b8))
    /\ UNCHANGED cand

Shift_SAR ==
    /\ Ready /\ inp.e.operation = "SAR"
    /\ Commit(inp.e, SHIFT_shift(VM, "SAR", inp.e.cnt, inp.e.b8))
    /\ UNCHANGED cand

NextShift == Shift_SHL \/ Shift_SHR \/ Shift_SAR

SpecShift == InitShift /\ [][NextShift]_vars

\* C4: when the count masked with 0x1F is 0, SHL / SHR / SAR with any count
\* source and operand size leave the destination, the other registers, memory
\* and every bit of EFLAGS as they were, and report success.
C4_ZeroCountNoOp ==
    (log # <<>> /\ inp.count % 32 = 0) =>
        /\ ret = "True"
        /\ ReadRM(reg, mem, inp.kind, inp.sz) = inp.a
        /\ eflags = Pre.eflags
        /\ reg = Pre.reg
        /\ mem = Pre.mem

\* SAR of a negative doubleword in memory by CL = 32 has run with flags set.
C4_Witness ==
    /\ log # <<>> /\ ret = "True"
    /\ inp.count = 32 /\ inp.e.cnt = "C_CL" /\ inp.e.operation = "SAR"
    /\ inp.kind = "mem" /\ inp.sz = 4 /\ inp.a = <<1, 0, 0, 128>>
    /\ eflags = <<215, 12, 0, 0>>

\* Bit i of an n-bit value a shifted by c: zeros come in for SHL and SHR, copies
\* of the sign bit for SAR
RefShiftBit(operation, a, c, i, n) ==
    CASE operation = "SHL" -> IF i >= c THEN ValBit(a, i - c) ELSE 0
      [] operation = "SHR" -> IF i + c < n THEN ValBit(a, i + c) ELSE 0
      [] operation = "SAR" -> ValBit(a, IF i + c < n THEN i + c ELSE n - 1)

\* The last bit that left an n-bit value a shifted by c
RefShiftCF(operation, a, c, n) ==
    CASE operation = "SHL" -> IF c <= n THEN ValBit(a, n - c) ELSE 0
      [] operation = "SHR" -> IF c <= n THEN ValBit(a, c - 1) ELSE 0
      [] operation = "SAR" -> ValBit(a, IF c <= n THEN c - 1 ELSE n - 1)

\* C19: SHL, SHR and SAR with masked count c in 1..31 on an operand of size 1, 2
\* or 4 leave the shifted value cut to the size in the destination (SAR fills
\* with the sign, SHR with zeros), CF is the last bit shifted out, SF, ZF and PF
\* are those of the result, and when c = 1 OF is MSB(result) XOR CF for SHL, the
\* MSB of the value before the shift for SHR, and 0 for SAR.
C19_Shift ==
    (log # <<>> /\ inp.count % 32 # 0) =>
        LET c      == inp.count % 32
            n      == 8 * inp.sz
            op     == inp.e.operation
            result == ReadRM(reg, mem, inp.kind, inp.sz)
        IN  /\ ret = "True"
            /\ \A i \in 0..(n - 1) : ValBit(result, i) = RefShiftBit(op, inp.a, c, i, n)
            /\ ValBit(eflags, CF) = RefShiftCF(op, inp.a, c, n)
            /\ ValBit(eflags, SF) = ValBit(result, n - 1)
            /\ ValBit(eflags, ZF) = B2I(IsZero(result))
            /\ ValBit(eflags, PF) = parity(result[1])
            /\ (c = 1) =>
                  ValBit(eflags, OF) =
                      CASE op = "SHL" -> (ValBit(result, n - 1) + ValBit(eflags, CF)) % 2
                        [] op = "SHR" -> ValBit(inp.a, n - 1)
                        [] op = "SAR" -> 0

\* D1 E3 (SHL EBX, 1) with EBX = 0x80000000 and the flags clear before:
\* EBX = 0, CF = 1, OF = 1, ZF = 1
C19_Witness ==
    /\ log # <<>> /\ ret = "True"
    /\ inp.e.operation = "SHL" /\ inp.e.cnt = "C_ONE" /\ inp.sz = 4 /\ inp.kind = "reg3"
    /\ inp.a = <<0, 0, 0, 128>>
    /\ Pre.eflags = <<0, 0, 0, 0>>
    /\ reg[3] = <<0, 0, 0, 0>>
    /\ ValBit(eflags, CF) = 1 /\ ValBit(eflags, OF) = 1 /\ ValBit(eflags, ZF) = 1

(***************************************************************************)
(* SpecGroup: the decoder's walk through the candidate list of an opcode   *)
(* slot whose candidates are told apart by the reg field of ModR/M.  The   *)
(* candidates are called in order until one does not return False; when    *)
(* all decline the decoder reports an illegal instruction.                 *)
(***************************************************************************)
GroupCodes == {128, 129, 131, 246, 247, 208, 209, 210, 211, 192, 193, 198, 199, 255, 143}

\* EAX..EDI; ESP is the top of the stack area, CL the shift count
GroupReg == [i \in 0..7 |->
               FromInt(CASE i = 0 -> 2 [] i = 1 -> 1 [] i = 2 -> 3 [] i = 3 -> 8
                         [] i = 4 -> 32 [] i = 5 -> 12 [] i = 6 -> 4 [] i = 7 -> 5, 4)]

\* The bytes that follow the ModR/M byte: SIB, displacement and immediate
GroupTails == { <<4, 0, 0, 0, 0, 129, 0, 0, 0>>, <<75, 2, 0, 0, 0, 3, 1, 0, 0>>,
                <<37, 255, 255, 255, 255, 0, 0, 0, 0>> }

InitGroup ==
    /\ InitCommon
    /\ \E opc \in GroupCodes, modrm \in 0..255, osz \in {2, 4}, tail \in GroupTails :
         /\ opcode = opc
         /\ operand_size = osz
         /\ cand = 1
         /\ reg = GroupReg
         /\ mem = WithCode(BaseMem, <<modrm>> \o tail)
         /\ eflags = <<215, 12, 0, 0>>
         /\ inp = [modrm |-> modrm, tail |-> tail]

\* The candidate the decoder is about to call
Current == OpcodeSlot(opcode)[cand]

Trying(h) ==
    /\ ret \in {"none", "False"}
    /\ cand <= Len(OpcodeSlot(opcode))
    /\ Current.h = h

Try_BITWISE_rm_imm ==
    /\ Trying("BITWISE.rm_imm")
    /\ Commit(Current, BITWISE_rm_imm(VM, Current.b8, Current.b8imm, Current.operation,
                                      Current.test))
    /\ cand' = cand + 1

Try_NEGNOT_rm ==
    /\ Trying("NEGNOT.rm")
    /\ Commit(Current, NEGNOT_rm(VM, Current.b8, Current.operation))
    /\ cand' = cand + 1

Try_SHIFT_shift ==
    /\ Trying("SHIFT.shift")
    /\ Commit(Current, SHIFT_shift(VM, Current.operation, Current.cnt, Current.b8))
    /\ cand' = cand + 1

Try_MOV_rm_imm ==
    /\ Trying("MOV.rm_imm")
    /\ Commit(Current, MOV_rm_imm(VM, Current.b8))
    /\ cand' = cand + 1

Try_PUSH_rm ==
    /\ Trying("PUSH.rm")
    /\ Commit(Current, PUSH_rm(VM))
    /\ cand' = cand + 1

Try_POP_rm ==
    /\ Trying("POP.rm")
    /\ Commit(Current, POP_rm(VM))
    /\ cand' = cand + 1

\* No candidate claimed the encoding
IllegalInstruction ==
    /\ ret = "False"
    /\ cand > Len(OpcodeSlot(opcode))
    /\ ret' = "illegal"
    /\ UNCHANGED <<cpuVars, cand, log, inp>>

NextGroup ==
    \/ Try_BITWISE_rm_imm
    \/ Try_NEGNOT_rm
    \/ Try_SHIFT_shift
    \/ Try_MOV_rm_imm
    \/ Try_PUSH_rm
    \/ Try_POP_rm
    \/ IllegalInstruction

SpecGroup == InitGroup /\ [][NextGroup]_vars

\* The reg field (bits 5:3) of the ModR/M byte the last handler call was given
RegField(vm) == (vm.mem[vm.eip] \div 8) % 8

\* C1: a handler that declines by returning False leaves EIP at its value on
\* entry and leaves the general registers, EFLAGS and memory unchanged.
C1_DeclineRestores ==
    (log # <<>> /\ ret = "False") =>
        /\ eip = Pre.eip
        /\ reg = Pre.reg
        /\ eflags = Pre.eflags
        /\ mem = Pre.mem

\* A candidate declined an encoding with a SIB byte and a 32-bit displacement,
\* after an earlier candidate of the same slot had declined it too.
C1_Witness ==
    /\ Len(log) = 2 /\ ret = "False"
    /\ inp.modrm \div 64 = 2 /\ inp.modrm % 8 = 4
    /\ Last.e.h = "SHIFT.shift"

C3_Handlers == {"BITWISE.rm_imm", "NEGNOT.rm", "SHIFT.shift"}

\* C3: a candidate of a list of bitwise.py declines an encoding exactly when
\* the reg field differs from its own value, and returns True when it equals
\* it and the operands can be accessed; every other candidate of the slot
\* declines the encoding a candidate has claimed, so at most one claims it
\* whatever the order of the list.
C3_RegFieldSelects ==
    (log # <<>> /\ ret # "illegal" /\ Last.e.h \in C3_Handlers) =>
        /\ (ret = "False") <=> (RegField(Pre) # Digit(Last.e))
        /\ (ret = "True") <=> (RegField(Pre) = Digit(Last.e) /\ ret # "fault")
        /\ (ret # "False") =>
              \A j \in 1..Len(OpcodeSlot(opcode)) :
                  j # Len(log) => Call(OpcodeSlot(opcode)[j], Pre).ret = "False"

\* Opcode 0xD3, which lists SAR before SHR, executed SHR after SHL and SAR
\* declined.
C3_Witness ==
    /\ opcode = 211 /\ Len(log) = 3 /\ ret = "True"
    /\ Last.e.operation = "SHR" /\ RegField(Pre) = 5

\* The handlers of the group slots that write a result to their r/m operand
C17_Handlers == {"BITWISE.rm_imm", "NEGNOT.rm", "SHIFT.shift", "MOV.rm_imm", "POP.rm"}

\* the general registers of two states agree outside the set keep
SameRegsBut(r1, r2, keep) == \A i \in 0..7 : i \in keep \/ r1[i] = r2[i]

\* a handler h that has completed wrote nothing but its r/m operand: memory at
\* the effective address and no general register for a memory operand, the
\* register of the r/m index and no memory for a register operand (POP also
\* moves ESP)
WritesOnlyRM(h) ==
    (log # <<>> /\ Last.e.h = h /\ ret = "True") =>
        LET sz    == IF Last.e.b8 THEN 1 ELSE operand_size
            pm    == process_ModRM(Pre, sz, sz)
            type  == pm.RM[1]
            a     == AddrOf(pm.RM[2])
            stack == IF h = "POP.rm" THEN {4} ELSE {}
        IN  IF type = 1
            THEN /\ SameRegsBut(reg, Pre.reg, stack)
                 /\ \A x \in 0..(MemSize - 1) :
                       (x < a \/ x >= a + sz) => mem[x] = Pre.mem[x]
            ELSE /\ mem = Pre.mem
                 /\ SameRegsBut(reg, Pre.reg,
                                {IF sz = 1 /\ a >= 4 THEN a - 4 ELSE a} \cup stack)

\* C17: every handler that writes a result to its r/m operand writes it to
\* memory at the effective address when ModR/M selects memory, changing no
\* general register by that write, and to the register of the r/m index when
\* ModR/M selects a register.
C17_WriteBack == \A h \in C17_Handlers : WritesOnlyRM(h)

\* the handlers other than NEG / NOT keep to their operand
C17_Others == \A h \in C17_Handlers \ {"NEGNOT.rm"} : WritesOnlyRM(h)

\* NEG dword [EAX] with EAX = 2 completed: EDX was written, memory was not
C17_NegWritesRegister ==
    /\ log # <<>> /\ Last.e.h = "NEGNOT.rm" /\ ret = "True"
    /\ Last.e.operation = "neg" /\ operand_size = 4 /\ ~Last.e.b8
    /\ inp.modrm = 24
    /\ mem = Pre.mem
    /\ reg[2] = operation_neg(mem_get(Pre.mem, 2, 4), 4)
    /\ reg[2] # Pre.reg[2]

(***************************************************************************)
(* SpecStack: up to MaxInstr instructions out of PUSH r, POP r, PUSHA(D)   *)
(* and POPA(D), one after the other, on a stack that ends below the code.  *)
(***************************************************************************)
\* ESP at the start of a run
StackTops == {CodeBase - 4, CodeBase}

InitStack ==
    /\ InitCommon
    /\ \E osz \in {2, 4}, top \in StackTops, v \in Vals4 :
         /\ operand_size = osz
         /\ opcode = 0
         /\ cand = 1
         /\ reg = [i \in 0..7 |-> IF i = 4 THEN FromInt(top, 4)
                                  ELSE operator("xor", BaseReg[i], v)]
         /\ mem = BaseMem
         /\ eflags = Zeros(4)
         /\ inp = [v |-> v, top |-> top]

\* The decoder has read the opcode byte at EIP and moved past it
Fetch(opc) == [VM EXCEPT !.opcode = opc, !.eip = eip + 1]

Running == ret \in {"none", "True"} /\ Len(log) < MaxInstr

\* The effect of the handler of the fetched instruction
Step(opc, res) ==
    /\ reg' = res.vm.reg
    /\ eflags' = res.vm.eflags
    /\ eip' = res.vm.eip
    /\ mem' = res.vm.mem
    /\ segment_override' = res.vm.segment_override
    /\ opcode' = opc
    /\ ret' = res.ret
    /\ log' = Append(log, [e |-> OpcodeSlot(opc)[1], pre |-> Fetch(opc)])
    /\ CommitSys(res)
    /\ UNCHANGED <<operand_size, address_size, cand, inp>>

Exec_PUSH_r ==
    /\ Running
    /\ \E r \in 0..7 : Step(80 + r, PUSH_r(Fetch(80 + r)))

Exec_POP_r ==
    /\ Running
    /\ \E r \in 0..7 : Step(88 + r, POP_r(Fetch(88 + r)))

Exec_PUSHA ==
    /\ Running
    /\ Step(96, PUSHA_pusha(Fetch(96)))

Exec_POPA ==
    /\ Running
    /\ Step(97, POPA_popa(Fetch(97)))

NextStack == Exec_PUSH_r \/ Exec_POP_r \/ Exec_PUSHA \/ Exec_POPA

SpecStack == InitStack /\ [][NextStack]_vars

\* The handler call before the last one
Prev == log[Len(log) - 1]

\* C5: PUSH r leaves ESP lower by the operand size and the value of r at the new
\* ESP; POP r (r other than ESP) loads r from the old ESP and leaves ESP higher
\* by the operand size; so PUSH r followed by POP r, r other than ESP, leaves
\* both r and ESP as they were before the PUSH.
C5_PushPopRoundTrip ==
    /\ (log # <<>> /\ Last.e.h = "PUSH.r" /\ ret = "True") =>
          LET r  == Pre.opcode % 8
              sz == operand_size
          IN  /\ reg[4][4] = 0
              /\ ToInt(reg[4]) = ToInt(Pre.reg[4]) - sz
              /\ mem_get(mem, ToInt(reg[4]), sz) = reg_get(Pre.reg, r, sz)
    /\ (log # <<>> /\ Last.e.h = "POP.r" /\ ret = "True" /\ Pre.opcode % 8 # 4) =>
          LET r  == Pre.opcode % 8
              sz == operand_size
          IN  /\ reg_get(reg, r, sz) = mem_get(Pre.mem, ToInt(Pre.reg[4]), sz)
              /\ ToInt(reg[4]) = ToInt(Pre.reg[4]) + sz
    /\ (Len(log) >= 2 /\ ret = "True" /\ Prev.e.h = "PUSH.r" /\ Last.e.h = "POP.r"
          /\ Pre.opcode % 8 = Prev.pre.opcode % 8 /\ Pre.opcode % 8 # 4) =>
          /\ reg[Pre.opcode % 8] = Prev.pre.reg[Pre.opcode % 8]
          /\ reg[4] = Prev.pre.reg[4]

\* PUSH ESI; POP ESI with a 32-bit operand and the top bit of ESI set
C5_Witness ==
    /\ Len(log) >= 2 /\ ret = "True"
    /\ Prev.e.h = "PUSH.r" /\ Last.e.h = "POP.r"
    /\ Prev.pre.opcode = 86 /\ Pre.opcode = 94
    /\ operand_size = 4
    /\ reg[6][4] >= 128
    /\ reg[4] = FromInt(CodeBase, 4)

\* C6: PUSHA(D) stores EAX, ECX, EDX, EBX, the ESP of before the instruction, EBP,
\* ESI, EDI at descending addresses in that order; POPA(D) loads EDI, ESI, EBP,
\* nothing from the fourth slot, then EBX, EDX, ECX, EAX from ascending addresses
\* and leaves ESP eight slots higher; so PUSHA(D) followed by POPA(D) leaves all
\* eight registers, ESP included, as they were before the PUSHA(D).
C6_PushaPopaRoundTrip ==
    /\ (log # <<>> /\ Last.e.h = "PUSHA.pusha" /\ ret = "True") =>
          LET sz   == operand_size
              base == ToInt(Pre.reg[4])
          IN  /\ \A k \in 0..7 :
                    mem_get(mem, base - (k + 1) * sz, sz) = reg_get(Pre.reg, k, sz)
              /\ ToInt(reg[4]) = base - 8 * sz
    /\ (log # <<>> /\ Last.e.h = "POPA.popa" /\ ret = "True") =>
          LET sz   == operand_size
              base == ToInt(Pre.reg[4])
          IN  /\ \A k \in 0..7 :
                    k # 3 => reg_get(reg, 7 - k, sz) = mem_get(Pre.mem, base + k * sz, sz)
              /\ ToInt(reg[4]) = base + 8 * sz
    /\ (Len(log) >= 2 /\ ret = "True" /\ Prev.e.h = "PUSHA.pusha"
          /\ Last.e.h = "POPA.popa") =>
          reg = Prev.pre.reg

\* PUSHAD; POPAD completed with eight different register values
C6_Witness ==
    /\ Len(log) >= 2 /\ ret = "True"
    /\ Prev.e.h = "PUSHA.pusha" /\ Last.e.h = "POPA.popa"
    /\ operand_size = 4
    /\ \A i, j \in 0..7 : i # j => reg[i] # reg[j]
    /\ reg[4] = FromInt(CodeBase, 4)

(***************************************************************************)
(* SpecCmpxchg: one CMPXCHG r/m, r on drawn accumulator, destination and   *)
(* source register.                                                        *)
(***************************************************************************)
InitCmpxchg ==
    /\ InitCommon
    /\ \E opc \in {4016, 4017}, osz \in {2, 4}, kind \in RMKinds, regf \in {0, 1, 2},
          fl \in BaseFlags :
         LET e  == CMPXCHG_opcodes(opc)[1]
             sz == IF e.b8 THEN 1 ELSE osz
         IN  \E a \in Vals(sz), d \in Vals(sz) :
               LET pl == PlaceRM(reg_set(BaseReg, 0, a), BaseMem, kind, d)
               IN  /\ opcode = opc
                   /\ operand_size = osz
                   /\ cand = 1
                   /\ reg = pl.reg
                   /\ mem = WithCode(pl.mem, <<RMByte(kind, regf)>>)
                   /\ eflags = fl
                   /\ inp = [sz |-> sz, kind |-> kind, regf |-> regf, e |-> e]

Exec_CMPXCHG ==
    /\ Ready
    /\ Commit(inp.e, CMPXCHG_rm_r(VM, inp.e.b8))
    /\ UNCHANGED cand

NextCmpxchg == Exec_CMPXCHG

SpecCmpxchg == InitCmpxchg /\ [][NextCmpxchg]_vars

\* C7: CMPXCHG completes; when the accumulator equals the destination, the
\* destination ends with the value the source register had and ZF = 1; when they
\* differ, the accumulator ends with the destination's value, the destination
\* still has it, and ZF = 0.
C7_Cmpxchg ==
    (log # <<>> /\ Last.e.h = "CMPXCHG.rm_r") =>
        LET sz == inp.sz
            a  == reg_get(Pre.reg, 0, sz)
            d  == ReadRM(Pre.reg, Pre.mem, inp.kind, sz)
            s  == reg_get(Pre.reg, inp.regf, sz)
        IN  /\ ret = "True"
            /\ (a = d) => /\ ReadRM(reg, mem, inp.kind, sz) = s
                          /\ ValBit(eflags, ZF) = 1
            /\ (a # d) => /\ reg_get(reg, 0, sz) = d
                          /\ ReadRM(reg, mem, inp.kind, sz) = d
                          /\ ValBit(eflags, ZF) = 0

\* a 32-bit CMPXCHG [EBX], ECX with EAX different from the memory operand
C7_Witness ==
    /\ log # <<>> /\ Last.e.h = "CMPXCHG.rm_r" /\ ret = "True"
    /\ inp.sz = 4 /\ inp.kind = "mem" /\ inp.regf = 1
    /\ Pre.reg[0] # mem_get(Pre.mem, DataAddr, 4)
    /\ reg[0] = mem_get(mem, DataAddr, 4)
    /\ reg[0][4] >= 128

\* the flags the compare of CMPXCHG does write as the claim says: ZF, CF, SF
\* and OF of a - b
CmpxchgCompared ==
    LET a == reg_get(Pre.reg, 0, inp.sz)
        b == ReadRM(Pre.reg, Pre.mem, inp.kind, inp.sz)
        c == Sub(a, b)
        n == 8 * inp.sz
    IN  /\ ret = "True"
        /\ ValBit(eflags, ZF) = B2I(a = b)
        /\ ValBit(eflags, CF) = B2I(Less(a, b))
        /\ ValBit(eflags, SF) = ValBit(c, n - 1)
        /\ ValBit(eflags, OF) = B2I(ValBit(a, n - 1) # ValBit(b, n - 1)
                                    /\ ValBit(a, n - 1) # ValBit(c, n - 1))

\* C22: after CMPXCHG the flags are those of comparing the accumulator a with
\* the destination b, whether or not the exchange happened: PF is the parity of
\* the low byte of a - b and AF is the borrow out of the low nibble.
C22_CmpxchgFlags ==
    (log # <<>> /\ Last.e.h = "CMPXCHG.rm_r") =>
        LET a == reg_get(Pre.reg, 0, inp.sz)
            b == ReadRM(Pre.reg, Pre.mem, inp.kind, inp.sz)
            c == Sub(a, b)
        IN  /\ CmpxchgCompared
            /\ ValBit(eflags, PF) = parity(c[1])
            /\ ValBit(eflags, AF) = B2I(b[1] % 16 > a[1] % 16)

\* ZF, CF, SF and OF are those of the compare
C22_OtherFlags ==
    (log # <<>> /\ Last.e.h = "CMPXCHG.rm_r") => CmpxchgCompared

\* CMPXCHG with equal accumulator and destination and PF clear before: the
\* result 0 has even parity and PF is still clear
C22_ParityNotSet ==
    /\ log # <<>> /\ Last.e.h = "CMPXCHG.rm_r" /\ ret = "True"
    /\ reg_get(Pre.reg, 0, inp.sz) = ReadRM(Pre.reg, Pre.mem, inp.kind, inp.sz)
    /\ ValBit(Pre.eflags, PF) = 0
    /\ ValBit(eflags, PF) = 0
    /\ ValBit(eflags, ZF) = 1

\* CMPXCHG with a = 0x000F and b = 0x8080: b's low nibble 0 is not above a's
\* low nibble 15, b's low byte 0x80 is above a's low byte 0x0F, and AF is set
C22_AuxiliaryFromByte ==
    /\ log # <<>> /\ Last.e.h = "CMPXCHG.rm_r" /\ ret = "True"
    /\ inp.sz = 2
    /\ reg_get(Pre.reg, 0, 2) = <<15, 0>>
    /\ ReadRM(Pre.reg, Pre.mem, inp.kind, 2) = <<128, 128>>
    /\ ValBit(eflags, AF) = 1

(***************************************************************************)
(* SpecMovs: up to MaxInstr MOVS on drawn indices, sizes and direction.    *)
(***************************************************************************)
\* ESI and EDI at the start of a run
MovsIndex == { <<0, 0, 0, 0>>, <<2, 0, 0, 0>>, <<9, 0, 0, 0>>, FromInt(MemSize - 2, 4),
               <<3, 0, 1, 0>> }

\* The segment override at the start of a run: none, or FS from a 0x64 prefix
MovsOverrides == {"none", "FS"}

InitMovs ==
    /\ InitSystem
    /\ segment_override \in MovsOverrides
    /\ eip = CodeBase
    /\ ret = "none"
    /\ log = <<>>
    /\ \E opc \in {164, 165}, osz \in {2, 4}, asz \in {2, 4}, fl \in BaseFlags,
          si \in MovsIndex, di \in MovsIndex :
         /\ opcode = opc
         /\ operand_size = osz
         /\ address_size = asz
         /\ cand = 1
         /\ reg = [BaseReg EXCEPT ![6] = si, ![7] = di]
         /\ mem = BaseMem
         /\ eflags = fl
         /\ inp = [e |-> MOVS_opcodes(opc)[1]]

Exec_MOVS ==
    /\ Running
    /\ Commit(inp.e, MOVS_movs(VM, inp.e.b8))
    /\ UNCHANGED cand

NextMovs == Exec_MOVS

SpecMovs == InitMovs /\ [][NextMovs]_vars

\* i + k or i - k modulo 2^(8*asz) as asz bytes, for 0 <= i and 0 < k < 256
RefAdvance(i, k, up, asz) ==
    IF up THEN FromInt(i + k, asz)
    ELSE IF i >= k THEN FromInt(i - k, asz)
    ELSE [j \in 1..asz |-> IF j = 1 THEN 256 - (k - i) ELSE 255]

C16_MovsOverride ==
    (log # <<>> /\ Last.e.h = "MOVS.movs") =>
        segment_override = Pre.segment_override

\* a MOVS that completes leaves the override as it was
C16_Completed ==
    (log # <<>> /\ Last.e.h = "MOVS.movs" /\ ret = "True") =>
        segment_override = Pre.segment_override

\* a MOVSD whose store at EDI = MemSize - 2 faults after its load succeeded
C16_StoreFault ==
    /\ log # <<>> /\ Last.e.h = "MOVS.movs" /\ ret = "fault"
    /\ Pre.segment_override = "FS"
    /\ segment_override = "ES"

(***************************************************************************)
(* SpecLea: one LEA r, m on drawn addressing forms, base values and sizes. *)
(***************************************************************************)
LeaForms == {"base", "disp8", "sib", "abs", "disp32", "reg"}

LeaBases == { <<8, 0, 0, 0>>, <<52, 18, 205, 171>>, <<255, 255, 255, 255>>, <<2, 0, 1, 0>> }

\* the bytes after the opcode: [EBX], [EBX-4], [EBX+ESI*4], [0x00012345],
\* [EBX+0x80000010], EBX
LeaCode(form, regf) ==
    CASE form = "base"   -> <<ModRM(0, regf, 3)>>
      [] form = "disp8"  -> <<ModRM(1, regf, 3), 252>>
      [] form = "sib"    -> <<ModRM(0, regf, 4), 2 * 64 + 6 * 8 + 3>>
      [] form = "abs"    -> <<ModRM(0, regf, 5), 69, 35, 1, 0>>
      [] form = "disp32" -> <<ModRM(2, regf, 3), 16, 0, 0, 128>>
      [] form = "reg"    -> <<ModRM(3, regf, 3)>>

InitLea ==
    /\ InitSystem
    /\ segment_override = "none"
    /\ eip = CodeBase
    /\ ret = "none"
    /\ log = <<>>
    /\ \E osz \in {2, 4}, asz \in {2, 4}, form \in LeaForms, base \in LeaBases,
          regf \in {0, 2, 7}, fl \in BaseFlags :
         /\ opcode = 141
         /\ operand_size = osz
         /\ address_size = asz
         /\ cand = 1
         /\ reg = [BaseReg EXCEPT ![3] = base]
         /\ mem = WithCode(BaseMem, LeaCode(form, regf))
         /\ eflags = fl
         /\ inp = [form |-> form, regf |-> regf, e |-> LEA_opcodes(141)[1]]

Exec_LEA ==
    /\ Ready
    /\ Commit(inp.e, LEA_r_rm(VM))
    /\ UNCHANGED cand

NextLea == Exec_LEA

SpecLea == InitLea /\ [][NextLea]_vars

\* C9: LEA with a memory form completes whether or not the effective address
\* lies in memory, leaves memory and EFLAGS as they were, changes no register
\* but the reg operand, and leaves in it: the address with 32-bit operand and
\* address; the low 16 bits of the address zero-extended with 32-bit operand
\* and 16-bit address; the low 16 bits of the address in the low half, the high
\* half kept, with 16-bit operand.
C9_Lea ==
    (log # <<>> /\ Last.e.h = "LEA.r_rm" /\ inp.form # "reg") =>
        LET ea == process_ModRM(Pre, address_size, operand_size).RM[2]
            R  == inp.regf
        IN  /\ ret = "True"
            /\ mem = Pre.mem
            /\ eflags = Pre.eflags
            /\ \A i \in 0..7 : i # R => reg[i] = Pre.reg[i]
            /\ (operand_size = 4 /\ address_size = 4) => reg[R] = ea
            /\ (operand_size = 4 /\ address_size = 2) => reg[R] = <<ea[1], ea[2], 0, 0>>
            /\ (operand_size = 2) =>
                  reg[R] = <<ea[1], ea[2], Pre.reg[R][3], Pre.reg[R][4]>>

\* 32-bit operand, 16-bit address, [EBX-4] with EBX = 0xABCD1234: the address
\* 0xABCD1230 is outside memory and EDX gets 0x00001230
C9_Witness ==
    /\ log # <<>> /\ Last.e.h = "LEA.r_rm" /\ ret = "True"
    /\ inp.form = "disp8" /\ inp.regf = 2
    /\ operand_size = 4 /\ address_size = 2
    /\ Pre.reg[3] = <<52, 18, 205, 171>>
    /\ ~InRange(AddrOf(process_ModRM(Pre, 2, 4).RM[2]), 1)
    /\ reg[2] = <<48, 18, 0, 0>>

(***************************************************************************)
(* SpecCmc: up to MaxInstr CMC from every setting of the status flags.     *)
(***************************************************************************)
\* EFLAGS words with every setting of CF, PF, AF, ZF, SF, DF, OF
FlagWords ==
    { <<lo, hi, 0, 0>> : lo \in {x \in Byte : Bit(x, 1) = 0 /\ Bit(x, 3) = 0 /\ Bit(x, 5) = 0},
                         hi \in {0, 4, 8, 12} }

InitCmc ==
    /\ InitCommon
    /\ \E fl \in FlagWords :
         /\ opcode = 245
         /\ operand_size = 4
         /\ cand = 1
         /\ reg = BaseReg
         /\ mem = BaseMem
         /\ eflags = fl
         /\ inp = [e |-> CMC_opcodes(245)[1]]

Exec_CMC ==
    /\ Running
    /\ Commit(inp.e, CMC_cmc(VM))
    /\ UNCHANGED cand

NextCmc == Exec_CMC

SpecCmc == InitCmc /\ [][NextCmc]_vars

\* C10: CMC completes with bit 0 (CF) of EFLAGS inverted and the other 31 bits
\* as they were; after two CMC in a row EFLAGS is what it was before the first.
C10_CmcInvolution ==
    /\ (log # <<>> /\ Last.e.h = "CMC.cmc") =>
          /\ ret = "True"
          /\ \A i \in 0..31 :
                ValBit(eflags, i) = IF i = 0 THEN 1 - ValBit(Pre.eflags, i)
                                    ELSE ValBit(Pre.eflags, i)
    /\ (Len(log) >= 2 /\ Prev.e.h = "CMC.cmc" /\ Last.e.h = "CMC.cmc") =>
          eflags = Prev.pre.eflags

\* two CMC from a state with CF, ZF and OF set
C10_Witness ==
    /\ Len(log) >= 2 /\ Prev.e.h = "CMC.cmc" /\ Last.e.h = "CMC.cmc"
    /\ ValBit(eflags, CF) = 1 /\ ValBit(eflags, ZF) = 1 /\ ValBit(eflags, OF) = 1
    /\ ValBit(Pre.eflags, CF) = 0

(***************************************************************************)
(* SpecMov: one MOV of each form on drawn operands.                        *)
(***************************************************************************)
MovCodes == {176, 179, 183, 184, 187, 191, 198, 199, 136, 137, 138, 139, 160, 161, 162, 163}

InitMov ==
    /\ InitSystem
    /\ segment_override = "none"
    /\ eip = CodeBase
    /\ ret = "none"
    /\ log = <<>>
    /\ \E opc \in MovCodes, osz \in {2, 4}, asz \in {2, 4}, kind \in RMKinds,
          regf \in {0, 1, 3}, fl \in BaseFlags :
         LET e  == MOV_opcodes(opc)[1]
             sz == IF e.b8 THEN 1 ELSE osz
         IN  \E a \in Vals(sz) :
               LET dst  == PlaceRM(reg_set(BaseReg, regf, a), BaseMem, kind, Zeros(sz))
                   src  == PlaceRM(BaseReg, BaseMem, kind, a)
                   pl   == CASE e.h = "MOV.r_imm"   -> [reg |-> BaseReg, mem |-> BaseMem]
                             [] e.h = "MOV.rm_imm"  -> PlaceRM(BaseReg, BaseMem, kind, Zeros(sz))
                             [] e.h = "MOV.rm_r"    -> IF e.reverse THEN src ELSE dst
                             [] e.h = "MOV.r_moffs" ->
                                  IF e.reverse
                                  THEN [reg |-> reg_set(BaseReg, 0, a), mem |-> BaseMem]
                                  ELSE [reg |-> BaseReg, mem |-> mem_set(BaseMem, DataAddr, a)]
                   code == CASE e.h = "MOV.r_imm"   -> a
                             [] e.h = "MOV.rm_imm"  -> <<RMByte(kind, 0)>> \o a
                             [] e.h = "MOV.rm_r"    -> <<RMByte(kind, regf)>>
                             [] e.h = "MOV.r_moffs" -> FromInt(DataAddr, asz)
               IN  /\ opcode = opc
                   /\ operand_size = osz
                   /\ address_size = asz
                   /\ cand = 1
                   /\ reg = pl.reg
                   /\ mem = WithCode(pl.mem, code)
                   /\ eflags = fl
                   /\ inp = [sz |-> sz, kind |-> kind, regf |-> regf, e |-> e]

Exec_MOV_r_imm ==
    /\ Ready /\ inp.e.h = "MOV.r_imm"
    /\ Commit(inp.e, MOV_r_imm(VM, inp.e.b8))
    /\ UNCHANGED cand

Exec_MOV_rm_imm ==
    /\ Ready /\ inp.e.h = "MOV.rm_imm"
    /\ Commit(inp.e, MOV_rm_imm(VM, inp.e.b8))
    /\ UNCHANGED cand

Exec_MOV_rm_r ==
    /\ Ready /\ inp.e.h = "MOV.rm_r"
    /\ Commit(inp.e, MOV_rm_r(VM, inp.e.b8, inp.e.reverse))
    /\ UNCHANGED cand

Exec_MOV_r_moffs ==
    /\ Ready /\ inp.e.h = "MOV.r_moffs"
    /\ Commit(inp.e, MOV_r_moffs(VM, inp.e.b8, inp.e.reverse))
    /\ UNCHANGED cand

NextMov == Exec_MOV_r_imm \/ Exec_MOV_rm_imm \/ Exec_MOV_rm_r \/ Exec_MOV_r_moffs

SpecMov == InitMov /\ [][NextMov]_vars

\* The source operand of the MOV of a run, read in registers regs and memory m
MovSource(regs, m) ==
    CASE inp.e.h = "MOV.r_imm"   -> mem_get(m, CodeBase, inp.sz)
      [] inp.e.h = "MOV.rm_imm"  -> mem_get(m, CodeBase + 1, inp.sz)
      [] inp.e.h = "MOV.rm_r"    -> IF inp.e.reverse THEN ReadRM(regs, m, inp.kind, inp.sz)
                                    ELSE reg_get(regs, inp.regf, inp.sz)
      [] inp.e.h = "MOV.r_moffs" -> IF inp.e.reverse THEN reg_get(regs, 0, inp.sz)
                                    ELSE mem_get(m, DataAddr, inp.sz)

\* The destination operand of the MOV of a run
MovDest(regs, m) ==
    CASE inp.e.h = "MOV.r_imm"   -> reg_get(regs, opcode % 8, inp.sz)
      [] inp.e.h = "MOV.rm_imm"  -> ReadRM(regs, m, inp.kind, inp.sz)
      [] inp.e.h = "MOV.rm_r"    -> IF inp.e.reverse THEN reg_get(regs, inp.regf, inp.sz)
                                    ELSE ReadRM(regs, m, inp.kind, inp.sz)
      [] inp.e.h = "MOV.r_moffs" -> IF inp.e.reverse THEN mem_get(m, DataAddr, inp.sz)
                                    ELSE reg_get(regs, 0, inp.sz)

\* C11: a MOV r, imm / r/m, imm / r/m, r / r, r/m / accumulator, moffs / moffs,
\* accumulator completes with the destination holding the value the source had,
\* the source still holding it, and EFLAGS as before.
C11_MovCopies ==
    (log # <<>> /\ Last.e.h \in {"MOV.r_imm", "MOV.rm_imm", "MOV.rm_r", "MOV.r_moffs"}) =>
        /\ ret = "True"
        /\ MovDest(reg, mem) = MovSource(Pre.reg, Pre.mem)
        /\ MovSource(reg, mem) = MovSource(Pre.reg, Pre.mem)
        /\ eflags = Pre.eflags

\* MOV EBX, imm32 with the flags set and a destination that changes
C11_Witness ==
    /\ log # <<>> /\ Last.e.h = "MOV.r_imm" /\ ret = "True"
    /\ opcode = 187 /\ operand_size = 4
    /\ reg[3] = <<1, 0, 0, 128>> /\ Pre.reg[3] # reg[3]
    /\ eflags = <<215, 12, 0, 0>>

(***************************************************************************)
(* SpecKernel: up to MaxInstr int 0x80 with the exit, exit_group and brk   *)
(* syscalls on drawn arguments, for as long as the emulator is running.    *)
(***************************************************************************)
\* code_segment_end and the program break at the start of a run
KernelBreaks == { <<<<0, 16, 0, 0>>, <<0, 16, 0, 0>>>>, <<<<0, 16, 0, 0>>, <<0, 32, 0, 0>>>>,
                  <<<<0, 0, 0, 128>>, <<0, 0, 0, 128>>>> }

BrkArgs == { <<0, 0, 0, 0>>, <<255, 15, 0, 0>>, <<0, 16, 0, 0>>, <<0, 32, 0, 0>>,
             <<0, 0, 0, 128>>, <<255, 255, 255, 255>> }

ExitArgs == { <<7, 0, 0, 0>>, <<0, 0, 0, 0>>, <<255, 255, 255, 255>>, <<0, 0, 0, 128>> }

InitKernel ==
    /\ segment_override = "none"
    /\ address_size = 4
    /\ operand_size = 4
    /\ eip = CodeBase
    /\ ret = "none"
    /\ log = <<>>
    /\ opcode = 205
    /\ cand = 1
    /\ reg = BaseReg
    /\ mem = BaseMem
    /\ eflags = Zeros(4)
    /\ running = TRUE
    /\ RETCODE = 0
    /\ GDT = BaseGDT
    /\ sreg = BaseSreg
    /\ \E b \in KernelBreaks : code_segment_end = b[1] /\ program_break = b[2]
    /\ descriptors = BaseDescriptors
    /\ inp = [e |-> "int 0x80"]

\* The fetch-execute loop goes on: the emulator is running and no fault has ended it
KernelRunning == running /\ ret # "fault" /\ Len(log) < MaxInstr

\* The state at int 0x80 with the syscall number in EAX and the argument in EBX
Int80(code, arg) ==
    [VM EXCEPT !.reg = reg_set(reg_set(reg, 0, FromInt(code, 4)), 3, arg)]

\* The effect of the handler the dispatcher calls
SysCall(name, vm0, res) ==
    /\ reg' = res.vm.reg
    /\ eflags' = res.vm.eflags
    /\ eip' = res.vm.eip
    /\ mem' = res.vm.mem
    /\ segment_override' = res.vm.segment_override
    /\ ret' = res.ret
    /\ log' = Append(log, [e |-> [h |-> name], pre |-> vm0])
    /\ CommitSys(res)
    /\ UNCHANGED <<operand_size, address_size, opcode, cand, inp>>

Sys_exit ==
    /\ KernelRunning
    /\ \E arg \in ExitArgs : SysCall("sys_exit", Int80(1, arg), sys_exit(Int80(1, arg)))

Sys_exit_group ==
    /\ KernelRunning
    /\ \E arg \in ExitArgs :
         SysCall("sys_exit_group", Int80(252, arg), sys_exit_group(Int80(252, arg)))

Sys_brk ==
    /\ KernelRunning
    /\ \E arg \in BrkArgs : SysCall("sys_brk", Int80(45, arg), sys_brk(Int80(45, arg)))

NextKernel == Sys_exit \/ Sys_exit_group \/ Sys_brk

SpecKernel == InitKernel /\ [][NextKernel]_vars

\* r is the value of the 4 bytes bs read as a signed 32-bit integer
IsSigned32(r, bs) ==
    IF r >= 0 THEN bs = FromInt(r, 4)
    ELSE LET low == FromInt((r + 2147483647) + 1, 4)
         IN  bs = <<low[1], low[2], low[3], low[4] + 128>>

\* After exit or exit_group: not running, and the retcode is EBX read as signed
C12_Exited ==
    (log # <<>> /\ Last.e.h \in {"sys_exit", "sys_exit_group"}) =>
        /\ ret = "None"
        /\ ~running
        /\ IsSigned32(RETCODE, Pre.reg[3])

\* C12: exit (EAX = 1) and exit_group (EAX = 252) leave the emulator not running
\* with the retcode equal to EBX read as a signed 32-bit integer, and no step
\* taken once the emulator is not running makes it running again.
C12_ExitHalts == [](C12_Exited) /\ [][~running => ~running']_vars

\* int 0x80 with EAX = 1 and EBX = 7 has halted the emulator with retcode 7
C12_Witness ==
    /\ log # <<>> /\ Last.e.h = "sys_exit"
    /\ Pre.reg[0] = <<1, 0, 0, 0>> /\ Pre.reg[3] = <<7, 0, 0, 0>>
    /\ ~running /\ RETCODE = 7

\* C13: the program break is never below code_segment_end; a brk below
\* code_segment_end or equal to the break leaves the break as it was, any other
\* brk sets the break to its argument; and after each brk EAX is the break.
C13_Brk ==
    /\ ~Less(program_break, code_segment_end)
    /\ (log # <<>> /\ Last.e.h = "sys_brk") =>
          LET arg == Pre.reg[3]
          IN  /\ ret = "None"
              /\ program_break =
                    IF Less(arg, Pre.code_segment_end) \/ arg = Pre.program_break
                    THEN Pre.program_break ELSE arg
              /\ reg[0] = program_break

\* a brk below code_segment_end after a brk that raised the break
C13_Witness ==
    /\ Len(log) >= 2 /\ Prev.e.h = "sys_brk" /\ Last.e.h = "sys_brk"
    /\ Prev.pre.program_break # Pre.program_break
    /\ Less(Pre.reg[3], code_segment_end) /\ Pre.reg[3] # Zeros(4)
    /\ program_break = Pre.program_break
    /\ reg[0] = program_break

(***************************************************************************)
(* SpecThreadArea: up to MaxInstr set_thread_area syscalls on a drawn GDT  *)
(* and a drawn user_desc at DataAddr.                                      *)
(***************************************************************************)
\* A descriptor with the present bit (bit 7 of info) set, and one with it clear
PresentDescr == Descriptor(0, 207, 146, 0, 0, 65535)
FreeDescr    == Descriptor(0, 192, 18, 0, 0, 0)

\* The null descriptor followed by zero, one or two descriptors, present or not
GdtChoices ==
    { [i \in 0..0 |-> Zeros(8)] }
    \cup { [i \in 0..1 |-> IF i = 0 THEN Zeros(8) ELSE d] : d \in {PresentDescr, FreeDescr} }
    \cup { [i \in 0..2 |-> IF i = 0 THEN Zeros(8) ELSE IF i = 1 THEN d1 ELSE d2] :
             d1 \in {PresentDescr, FreeDescr}, d2 \in {PresentDescr, FreeDescr} }

UserBases  == { <<0, 0, 0, 0>>, <<120, 86, 52, 18>>, <<0, 240, 255, 191>> }
UserLimits == { <<255, 255, 15, 0>>, <<0, 16, 0, 0>>, <<52, 18, 165, 0>> }

InitThreadArea ==
    /\ segment_override = "none"
    /\ address_size = 4
    /\ operand_size = 4
    /\ eip = CodeBase
    /\ ret = "none"
    /\ log = <<>>
    /\ opcode = 205
    /\ cand = 1
    /\ eflags = Zeros(4)
    /\ running = TRUE
    /\ RETCODE = 0
    /\ sreg = BaseSreg
    /\ program_break = FromInt(MemSize, 4)
    /\ code_segment_end = FromInt(MemSize, 4)
    /\ descriptors = BaseDescriptors
    /\ reg = [BaseReg EXCEPT ![0] = FromInt(243, 4), ![3] = FromInt(DataAddr, 4)]
    /\ \E g \in GdtChoices, n \in {<<255, 255, 255, 255>>, <<1, 0, 0, 0>>},
          b \in UserBases, l \in UserLimits :
         /\ GDT = g
         /\ mem = mem_set(BaseMem, DataAddr, n \o b \o l)
         /\ inp = [e |-> "int 0x80"]

Sys_set_thread_area ==
    /\ KernelRunning
    /\ SysCall("sys_set_thread_area", VM, sys_set_thread_area(VM))

NextThreadArea == Sys_set_thread_area

SpecThreadArea == InitThreadArea /\ [][NextThreadArea]_vars

\* The indices >= 1 of the descriptors of a GDT whose present bit is clear
NotPresent(gdt) == { i \in DOMAIN gdt : i >= 1 /\ Bit(gdt[i][3], 7) = 0 }

\* C14: after set_thread_area with entry_number 0xFFFFFFFF on a GDT that has a
\* descriptor with the present bit clear at an index >= 1, the lowest such
\* descriptor holds the base and the limit of the user_desc and has the present
\* bit set, its index is at the user_desc address, EAX is 0, and every other
\* descriptor is as it was.
C14_SetThreadArea ==
    (log # <<>> /\ Last.e.h = "sys_set_thread_area"
        /\ mem_get(Pre.mem, DataAddr, 4) = <<255, 255, 255, 255>>
        /\ NotPresent(Pre.GDT) # {}) =>
        LET k     == Least(NotPresent(Pre.GDT))
            base  == mem_get(Pre.mem, DataAddr + 4, 4)
            limit == mem_get(Pre.mem, DataAddr + 8, 4)
        IN  /\ ret = "None"
            /\ <<GDT[k][5], GDT[k][6], GDT[k][4], GDT[k][1]>> = base
            /\ <<GDT[k][7], GDT[k][8]>> = <<limit[1], limit[2]>>
            /\ GDT[k][2] % 16 = limit[3] % 16
            /\ Bit(GDT[k][3], 7) = 1
            /\ mem_get(mem, DataAddr, 4) = FromInt(k, 4)
            /\ reg[0] = Zeros(4)
            /\ \A i \in DOMAIN GDT : i # k => GDT[i] = Pre.GDT[i]

\* the call has overwritten a present descriptor at index 1 although index 2 was free
C14_Overwrites ==
    /\ log # <<>> /\ Last.e.h = "sys_set_thread_area"
    /\ mem_get(Pre.mem, DataAddr, 4) = <<255, 255, 255, 255>>
    /\ Pre.GDT = [i \in 0..2 |-> IF i = 0 THEN Zeros(8)
                                 ELSE IF i = 1 THEN PresentDescr ELSE FreeDescr]
    /\ GDT[1] # Pre.GDT[1]
    /\ GDT[2] = Pre.GDT[2]
    /\ mem_get(mem, DataAddr, 4) = <<1, 0, 0, 0>>

\* the last call was set_thread_area and it returned 0
ThreadAreaReturned ==
    log # <<>> /\ Last.e.h = "sys_set_thread_area" /\ ret = "None" /\ reg[0] = Zeros(4)

\* the index at the user_desc address names a descriptor at an index >= 1 that is
\* present and holds the base and the limit of the user_desc passed in
ThreadAreaReported ==
    LET k     == mem_get(mem, DataAddr, 4)
        base  == mem_get(Pre.mem, DataAddr + 4, 4)
        limit == mem_get(Pre.mem, DataAddr + 8, 4)
    IN  /\ k[2] = 0 /\ k[3] = 0 /\ k[4] = 0
        /\ k[1] >= 1 /\ k[1] \in DOMAIN GDT
        /\ Bit(GDT[k[1]][3], 7) = 1
        /\ <<GDT[k[1]][5], GDT[k[1]][6], GDT[k[1]][4], GDT[k[1]][1]>> = base
        /\ <<GDT[k[1]][7], GDT[k[1]][8]>> = <<limit[1], limit[2]>>
        /\ GDT[k[1]][2] % 16 = limit[3] % 16

\* C30: whenever set_thread_area returns 0, for any entry_number and any GDT, the
\* index written back at the user_desc address is >= 1 and names a descriptor that
\* is present and holds the base and the limit of the user_desc; the null
\* descriptor at index 0 is never reported and never modified
C30_SetThreadArea ==
    ThreadAreaReturned => (ThreadAreaReported /\ GDT[0] = Pre.GDT[0])

\* with entry_number 0xFFFFFFFF and a GDT that has a descriptor besides the null
\* one the statement holds; the null descriptor is never modified
C30_Scan ==
    /\ GDT[0] = Zeros(8)
    /\ (ThreadAreaReturned /\ mem_get(Pre.mem, DataAddr, 4) = <<255, 255, 255, 255>>
           /\ Cardinality(DOMAIN Pre.GDT) > 1) => ThreadAreaReported

\* a call with entry_number 1 has returned 0 with index 0 at the user_desc address
\* and the GDT as it was
C30_ReportsNull ==
    /\ ThreadAreaReturned
    /\ mem_get(Pre.mem, DataAddr, 4) = <<1, 0, 0, 0>>
    /\ Cardinality(DOMAIN Pre.GDT) = 3
    /\ mem_get(mem, DataAddr, 4) = Zeros(4)
    /\ GDT = Pre.GDT

\* a call with entry_number 0xFFFFFFFF on a GDT that holds only the null
\* descriptor has returned 0 with index 0 at the user_desc address
C30_NullOnly ==
    /\ ThreadAreaReturned
    /\ mem_get(Pre.mem, DataAddr, 4) = <<255, 255, 255, 255>>
    /\ DOMAIN Pre.GDT = {0}
    /\ mem_get(mem, DataAddr, 4) = Zeros(4)

(***************************************************************************)
(* SpecBsf: one BSF on drawn sources, zero included.                       *)
(***************************************************************************)
\* Sources of the scan: zero, single bits low and high, and mixed values
BsfSources ==
    Vals4 \cup { <<16, 0, 0, 0>>, <<0, 0, 0, 128>>, <<0, 0, 1, 0>>, <<0, 128, 0, 0>>,
                 <<0, 0, 192, 3>> }

InitBsf ==
    /\ InitCommon
    /\ \E osz \in {2, 4}, kind \in RMKinds, regf \in {0, 1, 3}, fl \in BaseFlags,
          v \in BsfSources :
         LET pl == PlaceRM(BaseReg, BaseMem, kind, Trunc(v, osz))
         IN  /\ opcode = 4028
             /\ operand_size = osz
             /\ cand = 1
             /\ reg = pl.reg
             /\ mem = WithCode(pl.mem, <<RMByte(kind, regf)>>)
             /\ eflags = fl
             /\ inp = [sz |-> osz, kind |-> kind, regf |-> regf,
                       e |-> BitScan_opcodes(4028)[1]]

Exec_BSF ==
    /\ Ready
    /\ Commit(inp.e, BitScan_bsf(VM))
    /\ UNCHANGED cand

NextBsf == Exec_BSF

SpecBsf == InitBsf /\ [][NextBsf]_vars

\* the positions of the set bits of a value
SetBits(bs) == {i \in 0..(8 * Len(bs) - 1) : ValBit(bs, i) = 1}

\* C15: for every nonzero source BSF completes with ZF = 0 and the destination
\* register holding the index of the least significant set bit of the source.
C15_Bsf ==
    (log # <<>> /\ Last.e.h = "BitScan.bsf") =>
        LET SRC == ReadRM(Pre.reg, Pre.mem, inp.kind, inp.sz)
        IN  ~IsZero(SRC) =>
              /\ ret = "True"
              /\ ValBit(eflags, ZF) = 0
              /\ reg_get(reg, inp.regf, inp.sz) = FromInt(Least(SetBits(SRC)), inp.sz)

\* BSF EAX, EBX with EBX = 0x10 and ZF set before: EAX = 4, ZF = 0
C15_Witness ==
    /\ log # <<>> /\ Last.e.h = "BitScan.bsf" /\ ret = "True"
    /\ inp.sz = 4 /\ inp.kind = "reg3" /\ inp.regf = 0
    /\ Pre.reg[3] = <<16, 0, 0, 0>>
    /\ ValBit(Pre.eflags, ZF) = 1
    /\ reg[0] = <<4, 0, 0, 0>>
    /\ ValBit(eflags, ZF) = 0

\* BSF with a zero source completes with ZF = 1
BsfZeroFlag ==
    (log # <<>> /\ Last.e.h = "BitScan.bsf"
        /\ IsZero(ReadRM(Pre.reg, Pre.mem, inp.kind, inp.sz))) =>
        /\ ret = "True"
        /\ ValBit(eflags, ZF) = 1

\* C26: when the source of BSF is zero, ZF = 1 and the destination register ends
\* with a value that depends on the instruction and its source alone: the same
\* instruction from a state that differs only in the earlier content of the
\* destination leaves the same value in it.
C26_BsfZero ==
    /\ BsfZeroFlag
    /\ (log # <<>> /\ Last.e.h = "BitScan.bsf" /\ inp.regf \in {0, 1}
          /\ IsZero(ReadRM(Pre.reg, Pre.mem, inp.kind, inp.sz))) =>
          \A d \in Vals4 :
              LET other == BitScan_bsf([Pre EXCEPT !.reg[inp.regf] = d])
              IN  reg_get(other.vm.reg, inp.regf, inp.sz) = reg_get(reg, inp.regf, inp.sz)

\* 0F BC C3 (BSF EAX, EBX) with EBX = 0: EAX still holds what it held before
C26_DestinationKept ==
    /\ log # <<>> /\ Last.e.h = "BitScan.bsf" /\ ret = "True"
    /\ inp.sz = 4 /\ inp.kind = "reg3" /\ inp.regf = 0
    /\ Pre.reg[3] = <<0, 0, 0, 0>>
    /\ ValBit(eflags, ZF) = 1
    /\ reg[0] = Pre.reg[0]
    /\ reg[0] # <<0, 0, 0, 0>>

(***************************************************************************)
(* SpecSreg: one MOV between a segment register and r/m, in either         *)
(* direction, on drawn selectors.                                          *)
(***************************************************************************)
\* Selectors in r/m: GDT entries 0, 1, 2 (one with RPL 3), an LDT selector, and
\* an index past the end of the GDT
SregSelectors == { <<0, 0>>, <<8, 0>>, <<16, 0>>, <<11, 0>>, <<12, 0>>, <<24, 0>> }

\* the selector refers to the GDT: TI = 0 and the index is one of its entries
InGDT(sel, gdt) == SelectorTI(sel) = 0 /\ SelectorIndex(sel) \in DOMAIN gdt

\* the segment register of a run holds the selector of GDT entry 2 at the start
SregLoaded == [selector |-> <<16, 0>>, descr |-> BaseGDT[2]]

InitSreg ==
    /\ running = TRUE
    /\ RETCODE = 0
    /\ program_break = FromInt(MemSize, 4)
    /\ code_segment_end = FromInt(MemSize, 4)
    /\ descriptors = BaseDescriptors
    /\ GDT = BaseGDT
    /\ segment_override = "none"
    /\ address_size = 4
    /\ eip = CodeBase
    /\ ret = "none"
    /\ log = <<>>
    /\ \E opc \in {140, 142}, kind \in RMKinds, regf \in {0, 3, 5}, fl \in BaseFlags,
          sel \in SregSelectors :
         LET pl == PlaceRM(BaseReg, BaseMem, kind, sel)
         IN  /\ opcode = opc
             /\ operand_size = 4
             /\ cand = 1
             /\ reg = pl.reg
             /\ mem = WithCode(pl.mem, <<RMByte(kind, regf)>>)
             /\ eflags = fl
             /\ sreg = [BaseSreg EXCEPT ![regf] = SregLoaded]
             /\ inp = [kind |-> kind, regf |-> regf, e |-> MOV_opcodes(opc)[1]]

Exec_MOV_sreg_rm ==
    /\ Ready
    /\ Commit(inp.e, MOV_sreg_rm(VM, inp.e.reverse))
    /\ UNCHANGED cand

NextSreg == Exec_MOV_sreg_rm

SpecSreg == InitSreg /\ [][NextSreg]_vars

\* C18: MOV between a segment register and r/m completes in both directions
\* for a selector that refers to the GDT and leaves EFLAGS as it was: 0x8E puts
\* the 16-bit selector of r/m in the segment register, 0x8C puts the selector of
\* the segment register in r/m.
C18_MovSreg ==
    (log # <<>> /\ Last.e.h = "MOV.sreg_rm") =>
        LET SRC == ReadRM(Pre.reg, Pre.mem, inp.kind, 2)
            sel == Pre.sreg[inp.regf].selector
        IN  /\ (~Last.e.reverse /\ InGDT(SRC, Pre.GDT)) =>
                  /\ ret = "True"
                  /\ eflags = Pre.eflags
                  /\ sreg[inp.regf].selector = SRC
            /\ (Last.e.reverse /\ InGDT(sel, Pre.GDT)) =>
                  /\ ret = "True"
                  /\ eflags = Pre.eflags
                  /\ ReadRM(reg, mem, inp.kind, 2) = sel

\* the load direction alone: 0x8E with a selector of the GDT
C18_Load ==
    (log # <<>> /\ Last.e.h = "MOV.sreg_rm" /\ ~Last.e.reverse) =>
        LET SRC == ReadRM(Pre.reg, Pre.mem, inp.kind, 2)
        IN  InGDT(SRC, Pre.GDT) =>
              /\ ret = "True"
              /\ eflags = Pre.eflags
              /\ sreg[inp.regf] = [selector |-> SRC, descr |-> Pre.GDT[SelectorIndex(SRC)]]
              /\ reg = Pre.reg /\ mem = Pre.mem

\* 8C DB (MOV BX, DS) with DS = 0x0010 ended in a fault with r/m unwritten
C18_StoreFaults ==
    /\ log # <<>> /\ Last.e.h = "MOV.sreg_rm" /\ Last.e.reverse
    /\ inp.kind = "reg3" /\ inp.regf = 3
    /\ Pre.sreg[3].selector = <<16, 0>>
    /\ ret = "fault"
    /\ reg = Pre.reg /\ mem = Pre.mem

(***************************************************************************)
(* SpecShiftd: one SHLD / SHRD on drawn operands and counts.               *)
(***************************************************************************)
\* Counts as found in CL or in the imm8 byte
ShiftdCounts == {0, 1, 4, 16, 17, 31, 32, 33, 64}

\* Values of the source register EDX
ShiftdSources == { <<255, 255, 255, 255>>, <<1, 0, 0, 128>> }

InitShiftd ==
    /\ InitCommon
    /\ \E opc \in {4004, 4005, 4012, 4013}, osz \in {2, 4}, kind \in RMKinds,
          fl \in BaseFlags, count \in ShiftdCounts, s \in ShiftdSources :
         LET e == SHIFTD_opcodes(opc)[1]
         IN  \E a \in Vals(osz) :
               LET pl   == PlaceRM(reg_set(BaseReg, 2, s), BaseMem, kind, a)
                   regs == IF e.cnt = "C_CL" THEN reg_set(pl.reg, 1, <<count>>) ELSE pl.reg
                   code == <<RMByte(kind, 2)>>
                              \o (IF e.cnt = "C_imm8" THEN <<count>> ELSE <<>>)
               IN  /\ opcode = opc
                   /\ operand_size = osz
                   /\ cand = 1
                   /\ reg = regs
                   /\ mem = WithCode(pl.mem, code)
                   /\ eflags = fl
                   /\ inp = [a |-> a, count |-> count, sz |-> osz, kind |-> kind, e |-> e]

Exec_SHLD ==
    /\ Ready /\ inp.e.operation = "SHL"
    /\ Commit(inp.e, SHIFTD_shift(VM, "SHL", inp.e.cnt))
    /\ UNCHANGED cand

Exec_SHRD ==
    /\ Ready /\ inp.e.operation = "SHR"
    /\ Commit(inp.e, SHIFTD_shift(VM, "SHR", inp.e.cnt))
    /\ UNCHANGED cand

NextShiftd == Exec_SHLD \/ Exec_SHRD

SpecShiftd == InitShiftd /\ [][NextShiftd]_vars

\* C20: when the count modulo 32 is 0 or exceeds the width of the operand in
\* bits, SHLD / SHRD leave the destination, the registers, memory and every bit
\* of EFLAGS as they were and report success with EIP past the ModR/M byte and
\* the imm8 count.
C20_ShiftdNoOp ==
    (log # <<>> /\ (inp.count % 32 = 0 \/ inp.count % 32 > 8 * inp.sz)) =>
        /\ ret = "True"
        /\ ReadRM(reg, mem, inp.kind, inp.sz) = inp.a
        /\ eflags = Pre.eflags
        /\ reg = Pre.reg
        /\ mem = Pre.mem
        /\ eip = Pre.eip + 1 + (IF inp.e.cnt = "C_imm8" THEN 1 ELSE 0)

\* 66 0F A4 13 11 (SHLD word [EBX], DX, 17) has run with the flags set
C20_Witness ==
    /\ log # <<>> /\ ret = "True"
    /\ inp.e.operation = "SHL" /\ inp.e.cnt = "C_imm8" /\ inp.count = 17
    /\ inp.sz = 2 /\ inp.kind = "mem" /\ inp.a = <<15, 0>>
    /\ eflags = <<215, 12, 0, 0>>
    /\ eip = CodeBase + 2

\* the count of the SHLD / SHRD that has run, after cnt %= 32
ShiftdCount == inp.count % 32

\* a SHLD / SHRD has run with a count c, 1 <= c <= N
ShiftdShifted == log # <<>> /\ ShiftdCount >= 1 /\ ShiftdCount <= 8 * inp.sz

\* bit i of the low N bits of (dst << c) | (src >> (N - c)) for SHL and of
\* (dst >> c) | (src << (N - c)) for SHR
RefShiftdBit(operation, dst, src, c, i, n) ==
    CASE operation = "SHL" -> IF i >= c THEN ValBit(dst, i - c) ELSE ValBit(src, n - c + i)
      [] operation = "SHR" -> IF i + c < n THEN ValBit(dst, i + c) ELSE ValBit(src, i + c - n)

\* what SHLD / SHRD has to leave: the double-precision shift in the destination,
\* the last bit shifted out of the destination in CF and, for a count of 1, OF = 1
\* iff the sign bit of the destination has changed
ShiftdLeaves ==
    LET n   == 8 * inp.sz
        c   == ShiftdCount
        dst == ReadRM(Pre.reg, Pre.mem, inp.kind, inp.sz)
        src == reg_get(Pre.reg, 2, inp.sz)
        res == ReadRM(reg, mem, inp.kind, inp.sz)
    IN  /\ ret = "True"
        /\ \A i \in 0..(n - 1) :
             ValBit(res, i) = RefShiftdBit(inp.e.operation, dst, src, c, i, n)
        /\ eflags_get(eflags, CF) = (IF inp.e.operation = "SHL" THEN ValBit(dst, n - c)
                                     ELSE ValBit(dst, c - 1))
        /\ c = 1 => (eflags_get(eflags, OF) = 1 <=> MSB(res, inp.sz) # MSB(dst, inp.sz))

\* C29: for operand size N bits and count c with 1 <= c <= N, SHLD leaves in the
\* destination the low N bits of (dst << c) | (src >> (N - c)) and SHRD the low N
\* bits of (dst >> c) | (src << (N - c)); CF is the last bit shifted out of the
\* destination and, for c = 1, OF = 1 iff the sign bit of the destination changed
C29_Shiftd == ShiftdShifted => ShiftdLeaves

\* the statement holds for SHLD
C29_Shld == (ShiftdShifted /\ inp.e.operation = "SHL") => ShiftdLeaves

\* SHRD sets CF to the last bit shifted out and, for c = 1, OF to the change of
\* the sign bit
C29_ShrdFlags ==
    (ShiftdShifted /\ inp.e.operation = "SHR") =>
        LET dst == ReadRM(Pre.reg, Pre.mem, inp.kind, inp.sz)
            res == ReadRM(reg, mem, inp.kind, inp.sz)
        IN  /\ ret = "True"
            /\ eflags_get(eflags, CF) = ValBit(dst, ShiftdCount - 1)
            /\ ShiftdCount = 1 =>
                 (eflags_get(eflags, OF) = 1 <=> MSB(res, inp.sz) # MSB(dst, inp.sz))

\* 0F AC 13 04 (SHRD [EBX], EDX, 4) with [EBX] = 0 and EDX = 0x80000001 has left
\* 0x00000080 in the destination, not 0x10000000
C29_ShrdFill ==
    /\ ShiftdShifted /\ ret = "True"
    /\ inp.e.operation = "SHR" /\ inp.e.cnt = "C_imm8" /\ inp.count = 4
    /\ inp.sz = 4 /\ inp.kind = "mem"
    /\ Pre.reg[2] = <<1, 0, 0, 128>>
    /\ mem_get(Pre.mem, DataAddr, 4) = Zeros(4)
    /\ mem_get(mem, DataAddr, 4) = <<128, 0, 0, 0>>

(***************************************************************************)
(* SpecNeg: one NEG or NOT on a drawn operand.                             *)
(***************************************************************************)
InitNeg ==
    /\ InitCommon
    /\ \E opc \in {246, 247}, c \in 1..2, osz \in {2, 4}, kind \in RMKinds, fl \in BaseFlags :
         LET e  == NEGNOT_opcodes(opc)[c]
             sz == IF e.b8 THEN 1 ELSE osz
         IN  \E a \in ShiftVals(sz) :
               LET pl == PlaceRM(BaseReg, BaseMem, kind, a)
               IN  /\ opcode = opc
                   /\ operand_size = osz
                   /\ cand = c
                   /\ reg = pl.reg
                   /\ mem = WithCode(pl.mem, <<RMByte(kind, NEGNOT_regfield(e.operation))>>)
                   /\ eflags = fl
                   /\ inp = [a |-> a, sz |-> sz, kind |-> kind, e |-> e]

Exec_NEG ==
    /\ Ready /\ inp.e.operation = "neg"
    /\ Commit(inp.e, NEGNOT_rm(VM, inp.e.b8, "neg"))
    /\ UNCHANGED cand

Exec_NOT ==
    /\ Ready /\ inp.e.operation = "not"
    /\ Commit(inp.e, NEGNOT_rm(VM, inp.e.b8, "not"))
    /\ UNCHANGED cand

NextNeg == Exec_NEG \/ Exec_NOT

SpecNeg == InitNeg /\ [][NextNeg]_vars

\* 0 - a modulo 2^(8*sz): the complement of every bit plus one
RefNeg(a) == AddK([i \in 1..Len(a) |-> 255 - a[i]], 1)

\* the most negative value of the size: the sign bit alone
MostNegative(a) == \A i \in 1..Len(a) : a[i] = IF i = Len(a) THEN 128 ELSE 0

\* NEG: the result and the flags the handler writes (CF, SF, ZF, PF)
NegWritten ==
    LET result == ReadRM(reg, mem, inp.kind, inp.sz)
    IN  /\ ret = "True"
        /\ result = RefNeg(inp.a)
        /\ ValBit(eflags, CF) = B2I(~IsZero(inp.a))
        /\ ValBit(eflags, SF) = ValBit(result, 8 * inp.sz - 1)
        /\ ValBit(eflags, ZF) = B2I(IsZero(result))
        /\ ValBit(eflags, PF) = parity(result[1])

\* C21: NEG leaves the two's-complement negation of the operand, CF = 1 iff the
\* operand is not 0, SF, ZF, PF of the result, OF = 1 exactly when the operand is
\* the most negative value, AF = 1 iff the low nibble of the operand is not 0;
\* NOT leaves the one's complement and changes no flag.
C21_NegNot ==
    (log # <<>>) =>
        IF inp.e.operation = "neg"
        THEN /\ NegWritten
             /\ ValBit(eflags, OF) = B2I(MostNegative(inp.a))
             /\ ValBit(eflags, AF) = B2I(inp.a[1] % 16 # 0)
        ELSE /\ ret = "True"
             /\ ReadRM(reg, mem, inp.kind, inp.sz) = [i \in 1..inp.sz |-> 255 - inp.a[i]]
             /\ eflags = Pre.eflags

\* on a register operand NEG gives the result, CF, SF, ZF and PF, and NOT the
\* complement with the flags kept
C21_RegisterOperand ==
    (log # <<>> /\ inp.kind # "mem") =>
        IF inp.e.operation = "neg"
        THEN NegWritten
        ELSE /\ ret = "True"
             /\ ReadRM(reg, mem, inp.kind, inp.sz) = [i \in 1..inp.sz |-> 255 - inp.a[i]]
             /\ eflags = Pre.eflags

\* F7 DB (NEG EBX) with EBX = 0x80000000 and OF clear before: OF is still clear
C21_OverflowNotSet ==
    /\ log # <<>> /\ ret = "True" /\ inp.e.operation = "neg"
    /\ inp.kind = "reg3" /\ inp.sz = 4 /\ inp.a = <<0, 0, 0, 128>>
    /\ reg[3] = <<0, 0, 0, 128>>
    /\ ValBit(Pre.eflags, OF) = 0
    /\ ValBit(eflags, OF) = 0

(***************************************************************************)
(* SpecFlags: up to MaxInstr instructions out of PUSHF(D) and POPF(D), one  *)
(* after the other, from drawn EFLAGS and stack contents.                  *)
(***************************************************************************)
\* EFLAGS at the start of a run: status flags, and bits 16..31 set as well
FlagsWords == { <<0, 0, 0, 0>>, <<215, 12, 0, 0>>, <<215, 12, 3, 0>>, <<1, 8, 255, 129>> }

\* The doubleword on top of the stack at the start of a run
FlagsOnStack == { <<0, 0, 0, 0>>, <<197, 8, 4, 0>>, <<255, 255, 255, 255>> }

InitFlags ==
    /\ InitCommon
    /\ \E osz \in {2, 4}, top \in StackTops, fl \in FlagsWords, w \in FlagsOnStack :
         /\ operand_size = osz
         /\ opcode = 0
         /\ cand = 1
         /\ reg = [BaseReg EXCEPT ![4] = FromInt(top - 4, 4)]
         /\ mem = mem_set(BaseMem, top - 4, w)
         /\ eflags = fl
         /\ inp = [top |-> top]

Exec_PUSHF ==
    /\ Running
    /\ Step(156, PUSHF_pushf(Fetch(156)))

Exec_POPF ==
    /\ Running
    /\ Step(157, POPF_popf(Fetch(157)))

NextFlags == Exec_PUSHF \/ Exec_POPF

SpecFlags == InitFlags /\ [][NextFlags]_vars

PushfWord ==
    (log # <<>> /\ Last.e.h = "PUSHF.pushf" /\ ret = "True" /\ operand_size = 2) =>
        /\ ToInt(reg[4]) = ToInt(Pre.reg[4]) - 2
        /\ mem_get(mem, ToInt(reg[4]), 2) = SubSeq(Pre.eflags, 1, 2)
        /\ \A x \in 0..(MemSize - 1) :
              (x < ToInt(reg[4]) \/ x >= ToInt(reg[4]) + 2) => mem[x] = Pre.mem[x]

\* C24: with a 16-bit operand size PUSHF lowers the stack pointer by 2 and
\* pushes the low 16 bits of EFLAGS; POPF pops one word, raising the stack
\* pointer by 2, and stores it in the low 16 bits of EFLAGS, bits 16..31 of
\* EFLAGS staying as they were.
C24_Word ==
    /\ PushfWord
    /\ (log # <<>> /\ Last.e.h = "POPF.popf" /\ ret = "True" /\ operand_size = 2) =>
          /\ ToInt(reg[4]) = ToInt(Pre.reg[4]) + 2
          /\ SubSeq(eflags, 1, 2) = mem_get(Pre.mem, ToInt(Pre.reg[4]), 2)
          /\ SubSeq(eflags, 3, 4) = SubSeq(Pre.eflags, 3, 4)

\* 66 9D (POPF) with EFLAGS = 0x00030CD7 before: bits 16 and 17 are cleared and
\* the stack pointer is four higher
C24_PopfClearsHigh ==
    /\ log # <<>> /\ Last.e.h = "POPF.popf" /\ ret = "True" /\ operand_size = 2
    /\ Pre.eflags = <<215, 12, 3, 0>>
    /\ SubSeq(eflags, 3, 4) = <<0, 0>>
    /\ ToInt(reg[4]) = ToInt(Pre.reg[4]) + 4

(***************************************************************************)
(* SpecXchg: one XCHG of either form on drawn operands; the memory operand *)
(* [EBX] is drawn at an address that is and at one that is not the number  *)
(* of a register.                                                          *)
(***************************************************************************)
\* The r/m operand: register EBX/BL, register EDI/BH, or memory at [EBX]
\* with EBX = 1 or EBX = DataAddr
XchgForms == {"reg3", "reg7", "mem1", "mem8"}

XchgAddr(form) == IF form = "mem1" THEN 1 ELSE DataAddr

XchgCodes == {134, 135, 144, 145, 147}

InitXchg ==
    /\ InitCommon
    /\ \E opc \in XchgCodes, osz \in {2, 4}, form \in XchgForms, regf \in {0, 1, 3},
          fl \in BaseFlags, v \in {<<1, 0, 0, 128>>, <<15, 0, 255, 127>>} :
         LET e     == XCHG_opcodes(opc)[1]
             mod   == IF form \in {"mem1", "mem8"} THEN 0 ELSE 3
             rm    == IF form = "reg7" THEN 7 ELSE 3
             regs0 == [i \in 0..7 |-> operator("xor", BaseReg[i], v)]
             regs  == IF mod = 0 THEN reg_set(regs0, 3, FromInt(XchgAddr(form), 4)) ELSE regs0
         IN  /\ opcode = opc
             /\ operand_size = osz
             /\ cand = 1
             /\ reg = regs
             /\ mem = WithCode(BaseMem, <<ModRM(mod, regf, rm)>>)
             /\ eflags = fl
             /\ inp = [form |-> form, regf |-> regf, e |-> e]

Exec_XCHG_eax_r ==
    /\ Ready /\ inp.e.h = "XCHG.eax_r"
    /\ Commit(inp.e, XCHG_eax_r(VM))
    /\ UNCHANGED cand

Exec_XCHG_rm_r ==
    /\ Ready /\ inp.e.h = "XCHG.rm_r"
    /\ Commit(inp.e, XCHG_rm_r(VM, inp.e.b8))
    /\ UNCHANGED cand

NextXchg == Exec_XCHG_eax_r \/ Exec_XCHG_rm_r

SpecXchg == InitXchg /\ [][NextXchg]_vars

\* XCHG eAX, r has swapped the accumulator with r, and changed nothing when r
\* is the accumulator; EFLAGS is as it was
XchgAccumulator ==
    (log # <<>> /\ Last.e.h = "XCHG.eax_r") =>
        LET sz == operand_size
            r  == opcode % 8
        IN  /\ ret = "True"
            /\ eflags = Pre.eflags
            /\ mem = Pre.mem
            /\ reg_get(reg, 0, sz) = reg_get(Pre.reg, r, sz)
            /\ reg_get(reg, r, sz) = reg_get(Pre.reg, 0, sz)
            /\ (r = 0) => reg = Pre.reg

\* XCHG r/m, r has put the earlier content of r in r/m and the earlier content
\* of r/m in r; EFLAGS is as it was
XchgSwapped ==
    LET sz   == IF Last.e.b8 THEN 1 ELSE operand_size
        pm   == process_ModRM(Pre, sz, sz)
        type == pm.RM[1]
        loc  == pm.RM[2]
        same == type = 0 /\ AddrOf(loc) = pm.R[2]
    IN  /\ ret = "True"
        /\ eflags = Pre.eflags
        /\ IF same THEN reg = Pre.reg /\ mem = Pre.mem
           ELSE /\ Get(VM, type, loc, sz) = reg_get(Pre.reg, pm.R[2], sz)
                /\ reg_get(reg, pm.R[2], sz) = Get(Pre, type, loc, sz)

\* C25: XCHG r/m, r exchanges the contents of its two locations and is a no-op
\* only when both are the same register; a memory operand is swapped with the
\* register whatever its address; XCHG eAX, r swaps the accumulator with r; no
\* form changes EFLAGS.
C25_Xchg ==
    /\ XchgAccumulator
    /\ (log # <<>> /\ Last.e.h = "XCHG.rm_r") => XchgSwapped

\* XCHG r/m, r swaps whenever the number of the location differs from the reg field
C25_OtherLocations ==
    (log # <<>> /\ Last.e.h = "XCHG.rm_r"
        /\ ~(inp.form = "mem1" /\ inp.regf = 1)) => XchgSwapped

\* 87 0B (XCHG [EBX], ECX) with EBX = 1 has completed and nothing was exchanged
C25_MemoryNotSwapped ==
    /\ log # <<>> /\ Last.e.h = "XCHG.rm_r" /\ ret = "True"
    /\ inp.form = "mem1" /\ inp.regf = 1 /\ operand_size = 4 /\ ~Last.e.b8
    /\ reg = Pre.reg /\ mem = Pre.mem
    /\ reg[1] # mem_get(mem, 1, 4)

(***************************************************************************)
(* SpecLlseek: up to MaxInstr llseek syscalls on drawn descriptors,        *)
(* offsets and whence values; descriptor 3 is a regular file.              *)
(***************************************************************************)
\* the position of the file at the start of a run
LlseekPositions == { Zeros(8), <<16, 0, 0, 0, 0, 0, 0, 0>> }

\* the size of the file
LlseekSize == <<32, 0, 0, 0, 0, 0, 0, 0>>

LlseekHighs == { Zeros(4), <<1, 0, 0, 0>> }

LlseekLows == { Zeros(4), <<16, 0, 0, 0>>, <<240, 255, 255, 255>> }

LlseekWhences == { Zeros(4), <<1, 0, 0, 0>>, <<2, 0, 0, 0>>, <<3, 0, 0, 0>> }

LlseekFds == { <<1, 0, 0, 0>>, <<3, 0, 0, 0>> }

InitLlseek ==
    /\ segment_override = "none"
    /\ address_size = 4
    /\ operand_size = 4
    /\ eip = CodeBase
    /\ ret = "none"
    /\ log = <<>>
    /\ opcode = 205
    /\ cand = 1
    /\ reg = BaseReg
    /\ mem = BaseMem
    /\ eflags = Zeros(4)
    /\ running = TRUE
    /\ RETCODE = 0
    /\ program_break = FromInt(MemSize, 4)
    /\ code_segment_end = FromInt(MemSize, 4)
    /\ GDT = BaseGDT
    /\ sreg = BaseSreg
    /\ \E p \in LlseekPositions :
         descriptors = [fd \in 0..3 |-> IF fd = 3 THEN Endpoint("file", p, LlseekSize)
                                        ELSE Endpoint("pipe", Zeros(8), Zeros(8))]
    /\ inp = [e |-> "int 0x80"]

\* The state at int 0x80 for llseek: 0x8c in EAX, the arguments in EBX, ECX, EDX,
\* ESI and EDI
Int80Llseek(fd, high, low, whence) ==
    [VM EXCEPT !.reg = [reg EXCEPT ![0] = FromInt(140, 4), ![3] = fd, ![1] = high,
                                   ![2] = low, ![6] = FromInt(DataAddr, 4),
                                   ![7] = whence]]

Sys_llseek ==
    /\ KernelRunning
    /\ \E fd \in LlseekFds, high \in LlseekHighs, low \in LlseekLows,
          whence \in LlseekWhences :
         SysCall("sys_llseek", Int80Llseek(fd, high, low, whence),
                 sys_llseek(Int80Llseek(fd, high, low, whence)))

NextLlseek == Sys_llseek

SpecLlseek == InitLlseek /\ [][NextLlseek]_vars

\* the last call was llseek and it returned
LlseekReturned == log # <<>> /\ Last.e.h = "sys_llseek" /\ ret = "None"

\* the host seek of the descriptor in EBX to the offset off with whence from EDI
LlseekHost(off) == os_lseek(Pre.descriptors[FdOf(Pre, Pre.reg[3])], off, Pre.reg[7])

\* what llseek has to leave for the host seek result r: on success the new
\* position in the descriptor and at the address in ESI and 0 in EAX, on an error
\* the memory as it was and -1 in EAX
LlseekLeaves(r) ==
    IF r.ok
    THEN /\ descriptors[FdOf(Pre, Pre.reg[3])].pos = r.ret
         /\ mem_get(mem, AddrOf(Pre.reg[6]), 4) = SubSeq(r.ret, 1, 4)
         /\ reg[0] = Zeros(4)
    ELSE /\ mem = Pre.mem
         /\ descriptors = Pre.descriptors
         /\ reg[0] = <<255, 255, 255, 255>>

\* C27: llseek seeks the descriptor in EBX to the 64-bit offset with ECX as the
\* upper and EDX as the lower 32 bits, using whence from EDI; on success it writes
\* the resulting position at the address in ESI and returns 0 in EAX, on a host
\* seek error it writes nothing to memory and returns -1 in EAX
C27_Llseek ==
    LlseekReturned => LlseekLeaves(LlseekHost(llseek_offset(Pre.reg[1], Pre.reg[2])))

\* with offset_high = 0 llseek leaves what the seek to the offset in EDX gives
C27_LowOffset ==
    (LlseekReturned /\ Pre.reg[1] = Zeros(4))
        => LlseekLeaves(LlseekHost(llseek_offset(Pre.reg[1], Pre.reg[2])))

\* a SEEK_SET with offset_high = 1 and offset_low = 16 returned 0 and left the
\* file at position 16, not at 2^32 + 16
C27_HighDropped ==
    /\ LlseekReturned
    /\ Pre.reg[1] = <<1, 0, 0, 0>> /\ Pre.reg[2] = <<16, 0, 0, 0>>
    /\ Pre.reg[7] = Zeros(4) /\ Pre.reg[3] = <<3, 0, 0, 0>>
    /\ reg[0] = Zeros(4)
    /\ descriptors[3].pos = <<16, 0, 0, 0, 0, 0, 0, 0>>
    /\ mem_get(mem, DataAddr, 4) = <<16, 0, 0, 0>>

(***************************************************************************)
(* SpecWritev: up to MaxInstr writev syscalls on drawn iovec records,      *)
(* counts and descriptors.  Descriptor 1 is a pipe, descriptor 2 an        *)
(* endpoint without fileno(), descriptor 3 a regular file.                 *)
(***************************************************************************)
\* an iovec record: '<II' of iov_base and iov_len
Iovec(base, len) == FromInt(base, 4) \o FromInt(len, 4)

\* the records a run draws from: two buffers, an empty record and a buffer that
\* does not fit in the store
IovecChoices == { Iovec(32, 2), Iovec(34, 0), Iovec(41, 3), Iovec(47, 200) }

WritevCounts == { Zeros(4), <<1, 0, 0, 0>>, <<2, 0, 0, 0>>, <<3, 0, 0, 0>>,
                  <<255, 255, 255, 255>> }

WritevFds == { <<1, 0, 0, 0>>, <<2, 0, 0, 0>>, <<255, 255, 255, 255>> }

WritevAddrs == { FromInt(DataAddr, 4), FromInt(DataAddr + 8, 4) }

InitWritev ==
    /\ segment_override = "none"
    /\ address_size = 4
    /\ operand_size = 4
    /\ eip = CodeBase
    /\ ret = "none"
    /\ log = <<>>
    /\ opcode = 205
    /\ cand = 1
    /\ reg = BaseReg
    /\ eflags = Zeros(4)
    /\ running = TRUE
    /\ RETCODE = 0
    /\ program_break = FromInt(MemSize, 4)
    /\ code_segment_end = FromInt(MemSize, 4)
    /\ GDT = BaseGDT
    /\ sreg = BaseSreg
    /\ descriptors = [fd \in 0..3 |->
                        Endpoint(CASE fd = 3 -> "file" [] fd = 2 -> "text" [] OTHER -> "pipe",
                                 Zeros(8), Zeros(8))]
    /\ \E recs \in [1..3 -> IovecChoices] :
         mem = mem_set(BaseMem, DataAddr, recs[1] \o recs[2] \o recs[3])
    /\ inp = [e |-> "int 0x80"]

\* The state at int 0x80 for writev: 0x92 in EAX, the arguments in EBX, ECX, EDX
Int80Writev(fd, iov_addr, iovcnt) ==
    [VM EXCEPT !.reg = [reg EXCEPT ![0] = FromInt(146, 4), ![3] = fd, ![1] = iov_addr,
                                   ![2] = iovcnt]]

Sys_writev ==
    /\ KernelRunning
    /\ \E fd \in WritevFds, iov_addr \in WritevAddrs, iovcnt \in WritevCounts :
         SysCall("sys_writev", Int80Writev(fd, iov_addr, iovcnt),
                 sys_writev(Int80Writev(fd, iov_addr, iovcnt)))

NextWritev == Sys_writev

SpecWritev == InitWritev /\ [][NextWritev]_vars

\* the last call was writev and it returned
WritevReturned == log # <<>> /\ Last.e.h = "sys_writev" /\ ret = "None"

\* the number of records EDX asks for
WritevCount == IF to_int_signed(Pre.reg[2]) < 0 THEN 0 ELSE to_int_signed(Pre.reg[2])

\* the i-th record, i from 0: the 8 bytes at ECX + 8*i
WritevRecord(i) == mem_get(Pre.mem, AddrOf(Pre.reg[1]) + 8 * i, 8)

\* the buffer the i-th record names, <<-1>> for one that does not lie in the store
WritevBuffer(i) ==
    LET iov_base == SubSeq(WritevRecord(i), 1, 4)
        iov_len  == SubSeq(WritevRecord(i), 5, 8)
    IN  IF InRange(AddrOf(iov_base), LenOf(iov_len))
        THEN mem_get(Pre.mem, AddrOf(iov_base), LenOf(iov_len))
        ELSE <<-1>>

\* the buffers of the first n records that are not empty, in the order of the records
RECURSIVE WritevBuffers(_)
WritevBuffers(n) ==
    IF n = 0 THEN <<>>
    ELSE IF SubSeq(WritevRecord(n - 1), 5, 8) = Zeros(4) THEN WritevBuffers(n - 1)
    ELSE Append(WritevBuffers(n - 1), WritevBuffer(n - 1))

\* the bytes in a sequence of buffers
RECURSIVE TotalLen(_)
TotalLen(bufs) == IF bufs = <<>> THEN 0 ELSE Len(Head(bufs)) + TotalLen(Tail(bufs))

\* C28: writev visits exactly EDX iovec records, the i-th at ECX + 8*i, an empty
\* record included; it writes the buffers of the records with nonzero length to
\* the descriptor in EBX in the order of the records, makes no write for an empty
\* record and to no other descriptor, and returns in EAX the sum of the byte
\* counts written
C28_Writev ==
    WritevReturned =>
        /\ \A d \in DOMAIN descriptors :
             descriptors[d].written =
                 Pre.descriptors[d].written
                     \o (IF d = FdSigned(Pre, Pre.reg[3]) THEN WritevBuffers(WritevCount)
                         ELSE <<>>)
        /\ reg[0] = FromInt(TotalLen(WritevBuffers(WritevCount)), 4)
        /\ mem = Pre.mem

\* a writev of three records, the second of them empty, has written the third
\* record's buffer after the first's and returned 5
C28_Witness ==
    /\ WritevReturned
    /\ Len(log) = 1
    /\ Pre.reg[2] = <<3, 0, 0, 0>> /\ Pre.reg[1] = FromInt(DataAddr, 4)
    /\ Pre.reg[3] = <<1, 0, 0, 0>>
    /\ WritevRecord(0) = Iovec(32, 2) /\ WritevRecord(1) = Iovec(34, 0)
    /\ WritevRecord(2) = Iovec(41, 3)
    /\ descriptors[1].written = <<mem_get(mem, 32, 2), mem_get(mem, 41, 3)>>
    /\ reg[0] = <<5, 0, 0, 0>>

=============================================================================
